---- MODULE Spec2Model ----
(***************************************************************************)
(* Model of the P2P signaling coordinator (src/src/backend/main.mo): the   *)
(* session table, the code index, the code generator and the public        *)
(* operations createSession, registerPeer, sendSignal, getSignals,         *)
(* clearSignals and getSessionInfo.                                        *)
(*                                                                         *)
(* Time.now() is nanoseconds in the canister; the model clock `now` counts *)
(* ticks, TicksPerSecond of them to the second, so the integer division of *)
(* isSessionExpired truncates in the model as it does in the code.  Within *)
(* one call Time.now() is constant (one message execution).  A PeerInfo    *)
(* is held by its id: joinedAt is written at registration and read by no   *)
(* operation.                                                              *)
(*                                                                         *)
(* The page (src/src/frontend/app.js) is modelled from AppState on: the    *)
(* session functions createSession, joinSession and waitForOtherPeer, the  *)
(* connection setup, the signal poll and resetApp.  JavaScript runs one    *)
(* callback at a time, so an async function advances atomically from one   *)
(* await to the next; a call of the canister is executed by the canister   *)
(* and answered in the step that resumes the caller.                       *)
(*                                                                         *)
(* The transfer over the data channel is modelled from the same file:      *)
(* calibration, sendFileMetadata and sendFileData on the sending page,     *)
(* the message handlers, the checkpoint store and the decompression on the *)
(* receiving page, with sizes in units of 64 KiB.                          *)
(***************************************************************************)
EXTENDS Integers, Sequences, FiniteSets, TLC

VARIABLES sessions, codeToSessionId, sessionCounter, now, gen,
          appState, tasks, timers, conns, trace,
          sender, receiver, wire, disk, clock, outcome

\* the page: the AppState object, the async functions and callbacks in
\* flight, the running intervals, the peer connections made, the record kept
clientVars == <<appState, tasks, timers, conns, trace>>

\* the transfer: the sending page, the receiving page, the data channel
\* between them, the receiving page's checkpoint store, the pages' clock in
\* milliseconds, and what the pages have handed to their users
transferVars == <<sender, receiver, wire, disk, clock, outcome>>

vars == <<sessions, codeToSessionId, sessionCounter, now, gen,
          appState, tasks, timers, conns, trace,
          sender, receiver, wire, disk, clock, outcome>>

-----------------------------------------------------------------------------
(* Bounds of the model *)

MaxSessions == 1      \* most sessions stored at a time
MaxQueue == 2         \* most payloads queued at a time, over all sessions
MaxRegistered == 2    \* most peers registered at a time, over all sessions
MaxSeed == 12         \* generator seeds 0..MaxSeed explored besides createSession's
MaxCounter == 3       \* session counters whose candidate seeds are explored
TicksPerSecond == 2   \* resolution of the clock (the code's clock: nanoseconds)
MaxStarts == 2        \* sessions the page starts or joins
MaxResets == 1        \* resets of the page
MaxOverlap == 2       \* poll callbacks in flight at a time
MaxOps == 4           \* calls made on one peer connection
MaxMail == 3          \* payloads queued at a time, with the page running

PeerIds == {"A", "B", "C"}
Signals == {"offer", "ice"}
Residues == {0}           \* values of Int.abs(Time.now()) % 999999999

-----------------------------------------------------------------------------
(* Constants of the program *)

SESSION_TTL_SECONDS == 600
MAX_PEERS_PER_SESSION_Three == 2 + 1
MAX_PEERS_PER_SESSION == 2
MAX_ATTEMPTS == 100
COUNTER_PRIME == 7919
RETRY_PRIME == 104729

chars == <<"A","B","C","D","E","F","G","H","I","J","K","L","M","N","O","P","Q","R",
           "S","T","U","V","W","X","Y","Z","0","1","2","3","4","5","6","7","8","9">>

charsArray == chars        \* Text.toArray(chars)

-----------------------------------------------------------------------------
(* 32-bit arithmetic of the generator.  Motoko's Nat is unbounded and the   *)
(* code reduces modulo 4294967296 after each multiplication; a value below  *)
(* 2^32 is held here as <<high 16 bits, low 16 bits>>.                      *)

Limb == 2^16

ToWord(n) == <<(n \div Limb) % Limb, n % Limb>>

LCG_A == <<25, 26125>>          \* 1664525
LCG_C == <<15470, 62303>>       \* 1013904223
MIX_P == <<40503, 31153>>       \* 2654435761

\* x * y for x, y < 2^16, as a word
Mul16(x, y) ==
  LET p1 == x * (y % 256)
      p2 == x * (y \div 256)
      q  == (p2 % 256) * 256 + p1
  IN  <<(p2 \div 256 + q \div Limb) % Limb, q % Limb>>

\* (a * k) % 4294967296
MulMod32(a, k) ==
  LET ll == Mul16(a[2], k[2])
      c1 == Mul16(a[1], k[2])[2]
      c2 == Mul16(a[2], k[1])[2]
  IN  <<(ll[1] + c1 + c2) % Limb, ll[2]>>

\* (a + c) % 4294967296 where a is the unreduced product's residue
AddMod32(a, c) ==
  LET s == a[2] + c[2]
  IN  <<(a[1] + c[1] + s \div Limb) % Limb, s % Limb>>

\* state := (state * 1664525 + 1013904223) % 4294967296;
\* state := (state * 2654435761) % 4294967296
mixStep(state) == MulMod32(AddMod32(MulMod32(state, LCG_A), LCG_C), MIX_P)

\* index = state % 36
charIndex(state) == ((state[1] % 36) * (Limb % 36) + (state[2] % 36)) % 36

iterRange_Long == 0..6

iterRange == 0..5

RECURSIVE genLoop(_, _, _)
genLoop(state, code, i) ==
  IF i \notin iterRange THEN code
  ELSE LET s == mixStep(state)
       IN  genLoop(s, Append(code, charsArray[charIndex(s) + 1]), i + 1)

generateCode(seed) == genLoop(ToWord(seed), <<>>, 0)

-----------------------------------------------------------------------------
(* The store: HashMaps as functions, results as tagged records *)

EmptyMap == [k \in {} |-> k]

Put(m, k, v) == [x \in DOMAIN m \cup {k} |-> IF x = k THEN v ELSE m[x]]

Delete(m, k) == [x \in DOMAIN m \ {k} |-> m[x]]

Ok(v) == [tag |-> "ok", val |-> v]

Err(msg) == [tag |-> "err", val |-> msg]

Unit == "()"

Store(s, c, n) == [sessions |-> s, codeToSessionId |-> c, sessionCounter |-> n]

Out(st, ret) == [st |-> st, ret |-> ret]

\* an id made of the time alone, to test C33 against
SessionIdOf_Clock(counter, t) == <<0, t>>

\* "session_" # Nat.toText(sessionCounter) # "_" # Int.toText(Time.now())
SessionIdOf(counter, t) == <<counter, t>>

peerIds(session) == {session.peers[i].id : i \in 1..Len(session.peers)}

-----------------------------------------------------------------------------
(* Helpers of the canister *)

isSessionExpired(session, t) ==
  LET elapsedSeconds == (t - session.createdAt) \div TicksPerSecond
  IN  elapsedSeconds > SESSION_TTL_SECONDS

cleanupExpiredSessions(st, t) ==
  LET sessionsToRemove == {sid \in DOMAIN st.sessions : isSessionExpired(st.sessions[sid], t)}
      removedCodes == {st.sessions[sid].code : sid \in sessionsToRemove}
  IN  Store([sid \in DOMAIN st.sessions \ sessionsToRemove |-> st.sessions[sid]],
            [c \in DOMAIN st.codeToSessionId \ removedCodes |-> st.codeToSessionId[c]],
            st.sessionCounter)

getPeerSignals(session, peerId) ==
  LET hits == {i \in 1..Len(session.signals) : session.signals[i][1] = peerId}
  IN  IF hits = {} THEN <<>>
      ELSE session.signals[CHOOSE i \in hits : \A j \in hits : i <= j][2]

updateSessionSignals_Reset(session, targetPeerId, newSignal) ==
  [session EXCEPT !.signals =
     [i \in 1..Len(session.signals) |->
        IF session.signals[i][1] = targetPeerId
        THEN <<session.signals[i][1], <<newSignal>> >>
        ELSE <<session.signals[i][1], <<>> >>]]

updateSessionSignals_Prepend(session, targetPeerId, newSignal) ==
  [session EXCEPT !.signals =
     [i \in 1..Len(session.signals) |->
        IF session.signals[i][1] = targetPeerId
        THEN <<session.signals[i][1], <<newSignal>> \o session.signals[i][2]>>
        ELSE session.signals[i]]]

updateSessionSignals(session, targetPeerId, newSignal) ==
  LET found == \E i \in 1..Len(session.signals) : session.signals[i][1] = targetPeerId
      updated == [i \in 1..Len(session.signals) |->
                    IF session.signals[i][1] = targetPeerId
                    THEN <<session.signals[i][1], Append(session.signals[i][2], newSignal)>>
                    ELSE session.signals[i]]
  IN  [session EXCEPT !.signals =
         IF found THEN updated ELSE Append(updated, <<targetPeerId, <<newSignal>> >>)]

clearPeerSignals_All(session, peerId) ==
  [session EXCEPT !.signals =
     [i \in 1..Len(session.signals) |-> <<session.signals[i][1], <<>> >>]]

clearPeerSignals_Drop(session, peerId) ==
  [session EXCEPT !.signals =
     SelectSeq(session.signals, LAMBDA e : e[1] # peerId)]

clearPeerSignals(session, peerId) ==
  [session EXCEPT !.signals =
     [i \in 1..Len(session.signals) |->
        IF session.signals[i][1] = peerId
        THEN <<session.signals[i][1], <<>> >>
        ELSE session.signals[i]]]

-----------------------------------------------------------------------------
(* Public API.  Each operation maps the store, the time of the call and    *)
(* its arguments to the store it leaves and the value it returns.          *)

\* while (Option.isSome(codeToSessionId.get(code)) and attempts < 100) { ... }
RECURSIVE retryCode(_, _, _, _)
retryCode(codeMap, baseSeed, code, attempts) ==
  IF code \in DOMAIN codeMap /\ attempts < MAX_ATTEMPTS
  THEN retryCode(codeMap, baseSeed,
                 generateCode(baseSeed + (attempts + 1) * RETRY_PRIME), attempts + 1)
  ELSE [code |-> code, attempts |-> attempts]

\* (timestamp % 999999999) + (sessionCounter * 7919)
baseSeedOf(residue, counter) == residue + counter * COUNTER_PRIME

createSession(st, t, residue) ==
  LET st1 == cleanupExpiredSessions(st, t)
      counter == st1.sessionCounter + 1
      sessionId == SessionIdOf(counter, t)
      baseSeed == baseSeedOf(residue, counter)
      picked == retryCode(st1.codeToSessionId, baseSeed, generateCode(baseSeed), 0)
      newSession == [id |-> sessionId, code |-> picked.code, createdAt |-> t,
                     peers |-> <<>>, isLocked |-> FALSE, signals |-> <<>>]
  IN  Out(Store(Put(st1.sessions, sessionId, newSession),
                Put(st1.codeToSessionId, picked.code, sessionId),
                counter),
          [sessionId |-> sessionId, code |-> picked.code])

registerPeer(st, t, code, peerId) ==
  LET st1 == cleanupExpiredSessions(st, t)
  IN  IF code \notin DOMAIN st1.codeToSessionId
      THEN Out(st1, Err("Session not found or expired"))
      ELSE
      LET sessionId == st1.codeToSessionId[code]
      IN  IF sessionId \notin DOMAIN st1.sessions
          THEN Out(st1, Err("Session not found"))
          ELSE
          LET session == st1.sessions[sessionId]
              newPeers == Append(session.peers, [id |-> peerId])
              shouldLock == Len(newPeers) >= MAX_PEERS_PER_SESSION
              updatedSession == [session EXCEPT
                                   !.peers = newPeers,
                                   !.isLocked = shouldLock,
                                   !.signals = Append(session.signals, <<peerId, <<>> >>)]
          IN  IF isSessionExpired(session, t)
              THEN Out(Store(Delete(st1.sessions, sessionId),
                             Delete(st1.codeToSessionId, code),
                             st1.sessionCounter),
                       Err("Session expired"))
              ELSE IF session.isLocked
              THEN Out(st1, Err("Session is full"))
              ELSE IF peerId \in peerIds(session)
              THEN Out(st1, Ok(sessionId))
              ELSE IF Len(session.peers) >= MAX_PEERS_PER_SESSION
              THEN Out(st1, Err("Session is full"))
              ELSE Out(Store(Put(st1.sessions, sessionId, updatedSession),
                             st1.codeToSessionId, st1.sessionCounter),
                       Ok(sessionId))

targetPeerOf_Self(session, fromPeerId) ==
  LET others == {i \in 1..Len(session.peers) : session.peers[i].id # fromPeerId}
  IN  IF others = {} THEN <<fromPeerId>>
      ELSE <<session.peers[CHOOSE i \in others : \A j \in others : j <= i].id>>

\* the last peer of the list whose id differs from the sender's, if any
targetPeerOf(session, fromPeerId) ==
  LET others == {i \in 1..Len(session.peers) : session.peers[i].id # fromPeerId}
  IN  IF others = {} THEN <<>>
      ELSE <<session.peers[CHOOSE i \in others : \A j \in others : j <= i].id>>

sendSignal(st, t, sessionId, fromPeerId, signal) ==
  IF sessionId \notin DOMAIN st.sessions
  THEN Out(st, Err("Session not found"))
  ELSE
  LET session == st.sessions[sessionId]
      peerFound == fromPeerId \in peerIds(session)
      targetPeerId == targetPeerOf(session, fromPeerId)
  IN  IF isSessionExpired(session, t)
      THEN Out(Store(Delete(st.sessions, sessionId),
                     Delete(st.codeToSessionId, session.code),
                     st.sessionCounter),
               Err("Session expired"))
      ELSE IF ~peerFound
      THEN Out(st, Err("Peer not registered in this session"))
      ELSE IF targetPeerId = <<>>
      THEN Out(st, Err("No other peer in session yet"))
      ELSE Out(Store(Put(st.sessions, sessionId,
                         updateSessionSignals(session, targetPeerId[1], signal)),
                     st.codeToSessionId, st.sessionCounter),
               Ok(Unit))

getSignals_Draining(st, t, sessionId, peerId) ==
  IF sessionId \notin DOMAIN st.sessions
  THEN Out(st, Err("Session not found"))
  ELSE
  LET session == st.sessions[sessionId]
  IN  IF isSessionExpired(session, t)
      THEN Out(st, Err("Session expired"))
      ELSE IF peerId \notin peerIds(session)
      THEN Out(st, Err("Peer not registered in this session"))
      ELSE Out(Store(Put(st.sessions, sessionId, clearPeerSignals(session, peerId)),
                     st.codeToSessionId, st.sessionCounter),
               Ok(getPeerSignals(session, peerId)))

getSignals(st, t, sessionId, peerId) ==
  IF sessionId \notin DOMAIN st.sessions
  THEN Out(st, Err("Session not found"))
  ELSE
  LET session == st.sessions[sessionId]
  IN  IF isSessionExpired(session, t)
      THEN Out(st, Err("Session expired"))
      ELSE IF peerId \notin peerIds(session)
      THEN Out(st, Err("Peer not registered in this session"))
      ELSE Out(st, Ok(getPeerSignals(session, peerId)))

clearSignals(st, t, sessionId, peerId) ==
  IF sessionId \notin DOMAIN st.sessions
  THEN Out(st, Err("Session not found"))
  ELSE Out(Store(Put(st.sessions, sessionId,
                     clearPeerSignals(st.sessions[sessionId], peerId)),
                 st.codeToSessionId, st.sessionCounter),
           Ok(Unit))

None == [tag |-> "null"]

Some(v) == [tag |-> "some", val |-> v]

getSessionInfo(st, t, code) ==
  IF code \notin DOMAIN st.codeToSessionId
  THEN Out(st, None)
  ELSE
  LET sessionId == st.codeToSessionId[code]
  IN  IF sessionId \notin DOMAIN st.sessions
      THEN Out(st, None)
      ELSE LET session == st.sessions[sessionId]
           IN  Out(st, Some([sessionId |-> session.id,
                             createdAt |-> session.createdAt,
                             peerCount |-> Len(session.peers),
                             isLocked |-> session.isLocked,
                             isExpired |-> isSessionExpired(session, t)]))

-----------------------------------------------------------------------------
(* The page (app.js): AppState, the signals and their handling.  An        *)
(* operator of the page maps a context c (the AppState object app, the     *)
(* running intervals, the peer connections, the record kept and the        *)
(* canister's store st) to the context it leaves.  Texts are sequences of  *)
(* characters; a signal travels as the object JSON.stringify was given.    *)

Null == <<>>          \* null, for a session id, a code or signal.candidate
NoHandle == 0         \* null, for an interval id or a peer connection

PREFIX_LEN == 50

MyPeerId == "A"       \* state.peerId of the page
RemotePeerId == "B"   \* the peer at the other end

AppState(peerId) ==
  [sessionId |-> Null, sessionCode |-> Null, peerId |-> peerId,
   peerConnection |-> NoHandle, remoteDescriptionSet |-> FALSE,
   pendingIceCandidates |-> <<>>, processedSignals |-> {},
   pollingInterval |-> NoHandle]

NoTrace ==
  [era |-> 0, starts |-> 0, handles |-> 0, sent |-> {}, handledOnce |-> {},
   handledTwice |-> {}, received |-> <<>>, ticks |-> {}, stale |-> {},
   offers |-> {}]

ClientInit ==
  /\ appState = AppState(MyPeerId)
  /\ tasks = {}
  /\ timers = {}
  /\ conns = <<>>
  /\ trace = NoTrace

OfferSignal == [type |-> "offer", sdp |-> <<"o">>, candidate |-> Null]

AnswerSignal == [type |-> "answer", sdp |-> <<"a">>, candidate |-> Null]

IceSignal(text) == [type |-> "ice-candidate", sdp |-> Null, candidate |-> <<text>>]

\* text.substring(0, n)
substring(text, n) == SubSeq(text, 1, IF Len(text) < n THEN Len(text) ELSE n)

signalHash(signal) ==
  IF signal.type = "answer" \/ signal.type = "offer"
  THEN <<signal.type, "_">> \o substring(signal.sdp, PREFIX_LEN)
  ELSE IF signal.type = "ice-candidate" /\ signal.candidate # Null
  THEN <<"ice_">> \o substring(signal.candidate[1], PREFIX_LEN)
  ELSE <<signal.type>>

clearInterval(c, id) == [c EXCEPT !.timers = {t \in @ : t.id # id}]

stopPolling(c) ==
  IF c.app.pollingInterval # NoHandle
  THEN [clearInterval(c, c.app.pollingInterval) EXCEPT !.app.pollingInterval = NoHandle]
  ELSE c

closeConnections(c) ==
  IF c.app.peerConnection # NoHandle
  THEN [c EXCEPT !.conns[c.app.peerConnection].closed = TRUE,
                 !.app.peerConnection = NoHandle]
  ELSE c

\* AppState.reset(): stop polling, close the connections, clear the fields
reset(c) ==
  LET c1 == closeConnections(stopPolling(c))
  IN  [c1 EXCEPT !.app = AppState(c.app.peerId)]

\* resetApp(); the record starts a new era
resetApp(c) ==
  [reset(c) EXCEPT !.trace.era = @ + 1,
                   !.trace.handledOnce = {},
                   !.trace.handledTwice = {},
                   !.trace.received = <<>>]

\* new RTCPeerConnection(ICE_SERVERS), assigned to state.peerConnection
newPeerConnection(c) ==
  [c EXCEPT !.conns = Append(@, [closed |-> FALSE, ops |-> <<>>]),
            !.app.peerConnection = Len(c.conns) + 1]

\* a method of state.peerConnection is called
callOn(c, op) == [c EXCEPT !.conns[c.app.peerConnection].ops = Append(@, op)]

\* setRemoteDescription has resolved on connection id
remoteSet(c, id, type) ==
  [c EXCEPT !.conns[id].ops = Append(@, <<"remoteDescription", type>>)]

\* state.pollingInterval = setInterval(...), setInterval(..., 1000)
setInterval(c, kind, era) ==
  [c EXCEPT !.trace.handles = @ + 1,
            !.timers = @ \cup {[id |-> c.trace.handles + 1, kind |-> kind,
                                era |-> era]}]

\* era: the era of the record in which the caller was started
startPollingForSignals(c, era) ==
  [setInterval(c, "poll", era) EXCEPT !.app.pollingInterval = c.trace.handles + 1]

\* the canister runs a call and the store of the context becomes its result's
called(c, out) == [c EXCEPT !.st = out.st]

Await(c, task, pc) == [c |-> c, task |-> [task EXCEPT !.pc = pc], status |-> "await"]

Return(c, task) == [c |-> c, task |-> task, status |-> "return"]

Throw(c, task) == [c |-> c, task |-> task, status |-> "throw"]

\* the record of a handler call: the fingerprint, and a candidate received
noteHandled(c, signal) ==
  LET h == signalHash(signal)
      seen == {c.trace.received[i][1] : i \in 1..Len(c.trace.received)}
      c1 == IF h \in c.trace.handledOnce
            THEN [c EXCEPT !.trace.handledTwice = @ \cup {h}]
            ELSE [c EXCEPT !.trace.handledOnce = @ \cup {h}]
  IN  IF signal.type = "ice-candidate" /\ signal.candidate # Null
         /\ signal.candidate \notin seen
      THEN [c1 EXCEPT !.trace.received =
              Append(@, <<signal.candidate, ~c.app.remoteDescriptionSet>>)]
      ELSE c1

\* handleSignalFromCanister(signal), up to its first await
handleSignalFromCanister(c, task, signal) ==
  IF signal.type = "offer"
  THEN IF c.app.peerConnection = NoHandle
       THEN Throw(c, task)
       ELSE Await(callOn(c, <<"setRemoteDescription", "offer">>),
                  [task EXCEPT !.conn = c.app.peerConnection],
                  "offer_setRemoteDescription")
  ELSE IF signal.type = "answer"
  THEN IF c.app.remoteDescriptionSet
       THEN Return(c, task)
       ELSE IF c.app.peerConnection = NoHandle
       THEN Return([c EXCEPT !.app.remoteDescriptionSet = TRUE], task)
       ELSE Await(callOn(c, <<"setRemoteDescription", "answer">>),
                  [task EXCEPT !.conn = c.app.peerConnection],
                  "answer_setRemoteDescription")
  ELSE IF signal.type = "ice-candidate" /\ signal.candidate # Null
  THEN IF c.app.remoteDescriptionSet
       THEN IF c.app.peerConnection = NoHandle
            THEN Throw(c, task)
            ELSE Await(callOn(c, <<"addIceCandidate", signal.candidate>>), task,
                       "ice_addIceCandidate")
       ELSE Return([c EXCEPT !.app.pendingIceCandidates = Append(@, signal.candidate)],
                   task)
  ELSE Return(c, task)

\* one turn of "for (const candidate of state.pendingIceCandidates)": the
\* candidates left are task.flush; inTry says whether a throw is caught by
\* the handler (the answer branch) or leaves it (the offer branch)
flushNext(c, task, inTry, pc) ==
  IF task.flush = <<>>
  THEN Return([c EXCEPT !.app.pendingIceCandidates = <<>>], task)
  ELSE IF c.app.peerConnection = NoHandle
  THEN IF inTry
       THEN Return([c EXCEPT !.app.remoteDescriptionSet = TRUE], task)
       ELSE Throw(c, task)
  ELSE Await(callOn(c, <<"addIceCandidate", Head(task.flush)>>),
             [task EXCEPT !.flush = Tail(@)], pc)

\* if (state.pendingIceCandidates.length > 0) { for ... }
flushPending(c, task, inTry, pc) ==
  IF Len(c.app.pendingIceCandidates) > 0
  THEN flushNext(c, [task EXCEPT !.flush = c.app.pendingIceCandidates], inTry, pc)
  ELSE Return(c, task)

\* handleSignalFromCanister resumed at the await task.pc names; ok says
\* whether the awaited promise resolved or rejected
resumeHandler(c, task, ok) ==
  IF task.pc = "offer_setRemoteDescription"
  THEN IF ~ok THEN Throw(c, task)
       ELSE LET c1 == [remoteSet(c, task.conn, "offer")
                         EXCEPT !.app.remoteDescriptionSet = TRUE]
            IN  IF c1.app.peerConnection = NoHandle
                THEN Throw(c1, task)
                ELSE Await(c1, task, "offer_setLocalDescription")
  ELSE IF task.pc = "offer_setLocalDescription"
  THEN Await(c, [task EXCEPT !.arg = c.app.sessionId], "offer_sendSignal")
  ELSE IF task.pc = "offer_sendSignal"
  THEN flushPending(called(c, sendSignal(c.st, now, task.arg, c.app.peerId, AnswerSignal)),
                    task, FALSE, "offer_flush")
  ELSE IF task.pc = "offer_flush"
  THEN flushNext(c, task, FALSE, "offer_flush")
  ELSE IF task.pc = "answer_setRemoteDescription"
  THEN IF ~ok THEN Return([c EXCEPT !.app.remoteDescriptionSet = TRUE], task)
       ELSE flushPending([remoteSet(c, task.conn, "answer")
                            EXCEPT !.app.remoteDescriptionSet = TRUE],
                         task, TRUE, "answer_flush")
  ELSE IF task.pc = "answer_flush"
  THEN flushNext(c, task, TRUE, "answer_flush")
  ELSE Return(c, task)

\* the tick is over: what it did is kept in the record
endTick(c, task, threw, cleared) ==
  [c |-> [c EXCEPT !.trace.ticks =
            @ \cup {[handled |-> task.new, failed |-> threw, cleared |-> cleared]}],
   task |-> task, live |-> FALSE]

\* after the for loop: if (newSignalsProcessed) await canister.clearSignals(...)
afterLoop_Always(c, task) ==
  IF c.app.sessionId = Null
  THEN endTick(c, task, TRUE, FALSE)
  ELSE [c |-> c, task |-> [task EXCEPT !.pc = "clearSignals", !.arg = c.app.sessionId],
        live |-> TRUE]

\* a call with state.sessionId null throws before it is sent, into the catch
afterLoop(c, task) ==
  IF ~task.new
  THEN endTick(c, task, FALSE, FALSE)
  ELSE IF c.app.sessionId = Null
  THEN endTick(c, task, TRUE, FALSE)
  ELSE [c |-> c, task |-> [task EXCEPT !.pc = "clearSignals", !.arg = c.app.sessionId],
        live |-> TRUE]

RECURSIVE pollLoop(_, _)
RECURSIVE settle(_)

\* the body of the interval callback of startPollingForSignals from the top
\* of the iteration for task.signals[task.i], up to the next await
pollLoop(c, task) ==
  IF task.i > Len(task.signals)
  THEN afterLoop(c, task)
  ELSE LET signal == task.signals[task.i]
       IN  IF signalHash(signal) \in c.app.processedSignals
           THEN pollLoop(c, [task EXCEPT !.i = @ + 1])
           ELSE settle(handleSignalFromCanister(noteHandled(c, signal), task, signal))

\* the handler has come to an await, has returned, or has thrown
settle(r) ==
  IF r.status = "await"
  THEN [c |-> r.c, task |-> r.task, live |-> TRUE]
  ELSE IF r.status = "throw"
  THEN endTick(r.c, r.task, TRUE, FALSE)
  ELSE pollLoop([r.c EXCEPT !.app.processedSignals =
                              @ \cup {signalHash(r.task.signals[r.task.i])}],
                [r.task EXCEPT !.new = TRUE, !.i = @ + 1])

\* the interval callback from its start: the canister answers getSignals
pollTick(c, task) ==
  LET response == getSignals(c.st, now, c.app.sessionId, c.app.peerId).ret
  IN  IF response.tag = "ok" /\ Len(response.val) > 0
      THEN pollLoop(c, [task EXCEPT !.signals = response.val, !.i = 1, !.new = FALSE])
      ELSE endTick(c, task, response.tag # "ok", FALSE)

\* the interval callback resumed at the await task.pc names
pollResume(c, task, ok) ==
  IF task.pc = "clearSignals"
  THEN endTick(called(c, clearSignals(c.st, now, task.arg, c.app.peerId)), task,
               FALSE, TRUE)
  ELSE settle(resumeHandler(c, task, ok))

NewTask(kind, n, pc, era) ==
  [kind |-> kind, n |-> n, pc |-> pc, era |-> era, handle |-> NoHandle,
   arg |-> Null, conn |-> NoHandle, signals |-> <<>>, i |-> 0, new |-> FALSE,
   flush |-> <<>>]

-----------------------------------------------------------------------------
(* The transfer over the data channel (app.js): files, frames, compression *)
(* and the checkpoint store.  A file is its name, its MIME type and its    *)
(* bytes.  A name is <<stem, extension>> and a type is the sequence of its *)
(* segments, so that endsWith and startsWith are tests on the last and on  *)
(* the first elements.  A text frame is held as the object JSON.parse      *)
(* makes of it, a binary frame as its bytes.  pako's gzip is not in the    *)
(* repository: it is held here as a run-length code between the two magic  *)
(* bytes of gzip and a trailer of checksum and length, so that ungzip      *)
(* inverts gzip and throws on any other input.                             *)

BUFFER_CHECK_THRESHOLD == 8 * 1024 * 1024
MAX_WAIT == 5000
BUFFER_POLL == 50
RESUME_EXPIRY_HOURS == 24
COMPRESSION_MIN_SIZE == 1024
SAVE_EVERY == 50
MAX_RUN == 255

COMPRESSIBLE_TYPES ==
  {<<"text/">>, <<"application/json">>, <<"application/javascript">>,
   <<"application/xml">>, <<"application/x-javascript">>, <<"application/typescript">>}

COMPRESSIBLE_EXTENSIONS ==
  {".txt", ".js", ".json", ".html", ".css", ".xml", ".csv", ".md",
   ".ts", ".tsx", ".jsx", ".yml", ".yaml", ".log", ".sql", ".sh"}

maxAge == RESUME_EXPIRY_HOURS * 60 * 60 * 1000

File(name, type, bytes) == [name |-> name, type |-> type, bytes |-> bytes]

startsWith(text, prefix) ==
  /\ Len(text) >= Len(prefix)
  /\ SubSeq(text, 1, Len(prefix)) = prefix

shouldCompressFile(file) ==
  IF Len(file.bytes) < COMPRESSION_MIN_SIZE
  THEN FALSE
  ELSE \/ \E type \in COMPRESSIBLE_TYPES : file.type # <<>> /\ startsWith(file.type, type)
       \/ file.name[2] \in COMPRESSIBLE_EXTENSIONS

\* the length, at most MAX_RUN, of the run of equal bytes that starts at i
runLength(bytes, i) ==
  LET most == IF Len(bytes) - i + 1 < MAX_RUN THEN Len(bytes) - i + 1 ELSE MAX_RUN
  IN  CHOOSE n \in 1..most :
        /\ \A j \in i..(i + n - 1) : bytes[j] = bytes[i]
        /\ n = most \/ bytes[i + n] # bytes[i]

RECURSIVE runs(_, _)
\* the runs of bytes from i on, each as <<byte, length>>
runs(bytes, i) ==
  IF i > Len(bytes)
  THEN <<>>
  ELSE <<bytes[i], runLength(bytes, i)>> \o runs(bytes, i + runLength(bytes, i))

RECURSIVE expand(_, _)
\* the bytes of the runs of code from position i on
expand(code, i) ==
  IF i + 1 > Len(code)
  THEN <<>>
  ELSE [j \in 1..code[i + 1] |-> code[i]] \o expand(code, i + 2)

RECURSIVE checksum(_, _)
\* the sum, modulo 256, of the bytes the runs of code from i on stand for
checksum(code, i) ==
  IF i + 1 > Len(code)
  THEN 0
  ELSE (code[i] * code[i + 1] + checksum(code, i + 2)) % 256

RECURSIVE runTotal(_, _)
\* the number of bytes the runs of code from i on stand for
runTotal(code, i) ==
  IF i + 1 > Len(code) THEN 0 ELSE code[i + 1] + runTotal(code, i + 2)

GZIP_MAGIC == <<31, 139>>

\* pako.gzip(uint8Array)
gzip(bytes) ==
  LET code == runs(bytes, 1)
  IN  GZIP_MAGIC \o code \o <<checksum(code, 1), Len(bytes) % 256>>

\* whether pako.ungzip(data) returns; it throws otherwise
inflates(data) ==
  /\ Len(data) >= 4
  /\ (Len(data) - 4) % 2 = 0
  /\ SubSeq(data, 1, 2) = GZIP_MAGIC
  /\ LET code == SubSeq(data, 3, Len(data) - 2)
     IN  /\ \A k \in 1..(Len(code) \div 2) : code[2 * k] \in 1..MAX_RUN
         /\ data[Len(data) - 1] = checksum(code, 1)
         /\ data[Len(data)] = runTotal(code, 1) % 256

\* pako.ungzip(uint8Array), where it returns
ungzip(data) == expand(SubSeq(data, 3, Len(data) - 2), 1)

\* Math.ceil(size / chunkSize)
ceilDiv(size, chunkSize) == (size + chunkSize - 1) \div chunkSize

\* blob.slice(from, to): the bytes at offsets from .. to - 1
slice(bytes, from, to) ==
  SubSeq(bytes, from + 1, IF to < Len(bytes) THEN to ELSE Len(bytes))

RECURSIVE concat(_)
\* new Blob(chunks): the chunks one after the other
concat(chunks) ==
  IF chunks = <<>> THEN <<>> ELSE Head(chunks) \o concat(Tail(chunks))

\* a value that may be null: <<v>> or Null
Just(v) == <<v>>

\* a frame on the data channel; text says whether typeof data === 'string'
Frame(text, type, index, size, fromChunk, meta, data) ==
  [text |-> text, type |-> type, index |-> index, size |-> size,
   fromChunk |-> fromChunk, meta |-> meta, data |-> data]

CalibrationTest == Frame(TRUE, "calibration-test", 0, 0, 0, Null, <<>>)
ChunkHeader(index, size) == Frame(TRUE, "chunk", index, size, 0, Null, <<>>)
Complete == Frame(TRUE, "complete", 0, 0, 0, Null, <<>>)
Resume(fromChunk) == Frame(TRUE, "resume", 0, 0, fromChunk, Null, <<>>)
Metadata(meta) == Frame(TRUE, "metadata", 0, 0, 0, Just(meta), <<>>)
Binary(data) == Frame(FALSE, "", 0, 0, 0, Null, data)

\* Chunk sizes are counted in units of Scale bytes, so that the files of
\* the model, which are short, take several chunks.
Scale == 64 * 1024
MIN_CHUNK_SIZE == (64 * 1024) \div Scale
MAX_CHUNK_SIZE == (1024 * 1024) \div Scale

\* new ArrayBuffer(testSize) of calibrateChunkSize, all zero
Probe == Binary([k \in 1..((256 * 1024) \div Scale) |-> 0])

\* the fields of AppState the page in send mode uses, CHUNK_SIZE, the
\* profile of the device (isMobileDevice, in the build that has one; false
\* in the build that has none), and the local variables of sendFileData and
\* waitForBuffer
Sender(file, chunkSize) ==
  [selectedFile |-> file, fileToSend |-> Null, isCompressed |-> FALSE,
   originalSize |-> 0, compressedSize |-> 0, CHUNK_SIZE |-> chunkSize,
   dataChannel |-> FALSE, bufferedAmount |-> 0, bufferStalls |-> 0,
   chunksSent |-> 0, resumeFromChunk |-> 0, isMobileDevice |-> FALSE,
   pc |-> "idle", sending |-> <<>>, offset |-> 0, chunkIndex |-> 0,
   startTime |-> 0, timedOut |-> FALSE]

\* the fields of AppState the page in receive mode uses, and whether the
\* file preview, with its accept and reject buttons, is shown
Receiver(code) ==
  [sessionCode |-> code, dataChannel |-> FALSE, fileMetadata |-> Null,
   totalChunks |-> 0, receivedChunks |-> <<>>, receivedBytes |-> 0,
   chunksReceived |-> 0, receivedChunkMap |-> {}, expectingChunkData |-> FALSE,
   currentChunkSize |-> 0, isCompressed |-> FALSE, originalSize |-> 0,
   isResuming |-> FALSE, resumeFromChunk |-> 0, jobs |-> <<>>,
   filePreview |-> FALSE]

\* the data channel: the frames on their way to the receiver (down) and to
\* the sender (up)
Wire == [down |-> <<>>, up |-> <<>>]

\* the IndexedDB store partialTransfers, keyed by sessionCode, and the
\* requests opened on it and not yet served
Disk(store) == [store |-> store, queue |-> <<>>]

\* what the page has handed to its user and what the model keeps of the run
NoOutcome ==
  [downloads |-> <<>>, alerts |-> <<>>, emitted |-> <<>>, arrived |-> <<>>,
   lookups |-> {},
   deleted |-> {}, resumes |-> {}, completed |-> 0, asked |-> 0, round |-> 1,
   accepted |-> FALSE]

\* state.dataChannel.send(frame) on the sending page; level is the
\* bufferedAmount the channel reports afterwards
send(x, frame, level) ==
  [x EXCEPT !.wire.down = Append(@, frame),
            !.sender.bufferedAmount = level,
            !.outcome.emitted = Append(@, frame)]

\* the chunk size calibrateChunkSize chooses when the two sends of the
\* probe took sendDuration milliseconds
chunkSizeFor(sendDuration) ==
  IF sendDuration < 20
  THEN MAX_CHUNK_SIZE
  ELSE IF sendDuration < 50
  THEN (512 * 1024) \div Scale
  ELSE IF sendDuration < 100
  THEN (256 * 1024) \div Scale
  ELSE MIN_CHUNK_SIZE

\* the chunk size calibrateChunkSize chooses on a device of the given
\* profile
chunkSizeOn(isMobileDevice, sendDuration) ==
  IF isMobileDevice
  THEN IF sendDuration < 50
       THEN (256 * 1024) \div Scale
       ELSE (128 * 1024) \div Scale
  ELSE chunkSizeFor(sendDuration)

\* calibrateChunkSize() with the channel open and both sends returning
calibrateChunkSize(x, sendDuration, level) ==
  IF ~x.sender.dataChannel
  THEN x
  ELSE [send(send(x, CalibrationTest, level), Probe, level)
          EXCEPT !.sender.CHUNK_SIZE = chunkSizeOn(x.sender.isMobileDevice, sendDuration)]

\* calibrateChunkSize() in full: readyState is that of state.dataChannel
\* and thrownAt is the send of the probe that throws, 0 if none does
calibrate(x, readyState, thrownAt, sendDuration, level) ==
  IF ~x.sender.dataChannel \/ readyState # "open"
  THEN x
  ELSE IF thrownAt = 1
  THEN [x EXCEPT !.sender.CHUNK_SIZE = MIN_CHUNK_SIZE]
  ELSE IF thrownAt = 2
  THEN [send(x, CalibrationTest, level) EXCEPT !.sender.CHUNK_SIZE = MIN_CHUNK_SIZE]
  ELSE calibrateChunkSize(x, sendDuration, level)

\* the metadata object of sendFileMetadata
metadataOf(s, actualSize) ==
  [fileName |-> s.selectedFile[1].name,
   fileSize |-> actualSize,
   originalSize |-> Len(s.selectedFile[1].bytes),
   fileType |-> IF s.selectedFile[1].type = <<>>
                THEN <<"application/octet-stream">>
                ELSE s.selectedFile[1].type,
   totalChunks |-> ceilDiv(actualSize, s.CHUNK_SIZE),
   isCompressed |-> s.isCompressed]

\* an async function of the sending page ends, by return or by exception
senderEnds(x) == [x EXCEPT !.sender.pc = "done"]

\* sendFileMetadata() from "const metadata" on
sendMetadata(x, fileToSend, level) ==
  IF x.sender.selectedFile = Null \/ ~x.sender.dataChannel
  THEN senderEnds(x)
  ELSE LET x1 == [x EXCEPT !.sender.fileToSend = Just(fileToSend)]
       IN  [send(x1, Metadata(metadataOf(x1.sender, Len(fileToSend))), level)
              EXCEPT !.sender.pc = "dataTimer"]

\* sendFileMetadata() up to its first await, or to its end
sendFileMetadata(x, level) ==
  IF x.sender.selectedFile = Null \/ ~x.sender.dataChannel
  THEN senderEnds(x)
  ELSE IF shouldCompressFile(x.sender.selectedFile[1])
  THEN [x EXCEPT !.sender.pc = "compressFile"]
  ELSE sendMetadata(x, x.sender.selectedFile[1].bytes, level)

\* sendFileMetadata() after "await compressFile(state.selectedFile)"; with
\* state.selectedFile null, state.isCompressed is set before
\* state.selectedFile.size throws
compressed(x, level) ==
  IF x.sender.selectedFile = Null
  THEN senderEnds([x EXCEPT !.sender.isCompressed = TRUE])
  ELSE LET data == gzip(x.sender.selectedFile[1].bytes)
       IN  sendMetadata([x EXCEPT !.sender.isCompressed = TRUE,
                                  !.sender.originalSize = Len(x.sender.selectedFile[1].bytes),
                                  !.sender.compressedSize = Len(data)],
                        data, level)

\* a loop that is left one chunk early, to test C24 against
loopHead_Early(x, level) ==
  LET s == x.sender
  IN  IF s.offset + s.CHUNK_SIZE < Len(s.sending)
      THEN [x EXCEPT !.sender.pc = "arrayBuffer", !.sender.timedOut = FALSE]
      ELSE senderEnds(send(x, Complete, level))

\* the head of "while (offset < fileSize)" in sendFileData, up to the next
\* await or to the end of the function
loopHead(x, level) ==
  LET s == x.sender
  IN  IF s.offset < Len(s.sending)
      THEN IF ~s.dataChannel
           THEN senderEnds(x)
           ELSE IF s.bufferedAmount > BUFFER_CHECK_THRESHOLD
           THEN [x EXCEPT !.sender.pc = "delay",
                          !.sender.startTime = x.clock,
                          !.sender.timedOut = FALSE,
                          !.sender.bufferStalls = @ + 1]
           ELSE [x EXCEPT !.sender.pc = "arrayBuffer", !.sender.timedOut = FALSE]
      ELSE IF ~s.dataChannel
      THEN senderEnds(x)
      ELSE senderEnds(send(x, Complete, level))

\* sendFileData() up to its first await
sendFileData(x, level) ==
  IF x.sender.selectedFile = Null \/ ~x.sender.dataChannel
  THEN senderEnds(x)
  ELSE loopHead([x EXCEPT !.sender.sending =
                            IF x.sender.fileToSend # Null
                            THEN x.sender.fileToSend[1]
                            ELSE x.sender.selectedFile[1].bytes,
                          !.sender.chunksSent = 0,
                          !.sender.bufferStalls = 0,
                          !.sender.offset = 0,
                          !.sender.chunkIndex = 0], level)

\* a wait that gives up as soon as the cap is reached, to test C30 against
waitForBuffer_Hasty(x) ==
  LET s == x.sender
  IN  IF s.bufferedAmount > BUFFER_CHECK_THRESHOLD
      THEN IF x.clock - s.startTime >= MAX_WAIT
           THEN [x EXCEPT !.sender.pc = "arrayBuffer", !.sender.timedOut = TRUE]
           ELSE [x EXCEPT !.sender.bufferStalls = @ + 1]
      ELSE [x EXCEPT !.sender.pc = "arrayBuffer"]

\* waitForBuffer(channel) after "await delay(50)": the loop test, the
\* timeout test and the next delay; channel is the one it was called with
waitForBuffer(x) ==
  LET s == x.sender
  IN  IF s.bufferedAmount > BUFFER_CHECK_THRESHOLD
      THEN IF x.clock - s.startTime > MAX_WAIT
           THEN [x EXCEPT !.sender.pc = "arrayBuffer", !.sender.timedOut = TRUE]
           ELSE [x EXCEPT !.sender.bufferStalls = @ + 1]
      ELSE [x EXCEPT !.sender.pc = "arrayBuffer"]

\* a loop that falls back to the smallest chunk once a chunk is sent, to
\* test C35 against
sendChunk_Adaptive(x, level) ==
  LET s == x.sender
      arrayBuffer == slice(s.sending, s.offset, s.offset + s.CHUNK_SIZE)
  IN  IF ~s.dataChannel
      THEN senderEnds(x)
      ELSE LET x1 == send(send(x, ChunkHeader(s.chunkIndex, Len(arrayBuffer)), level),
                          Binary(arrayBuffer), level)
           IN  loopHead([x1 EXCEPT !.sender.offset = @ + s.CHUNK_SIZE,
                                   !.sender.chunkIndex = @ + 1,
                                   !.sender.chunksSent = @ + 1,
                                   !.sender.CHUNK_SIZE = MIN_CHUNK_SIZE], level)

\* sendFileData() after "await chunk.arrayBuffer()": header and payload are
\* sent and the loop goes on
sendChunk(x, level) ==
  LET s == x.sender
      arrayBuffer == slice(s.sending, s.offset, s.offset + s.CHUNK_SIZE)
  IN  IF ~s.dataChannel
      THEN senderEnds(x)
      ELSE LET x1 == send(send(x, ChunkHeader(s.chunkIndex, Len(arrayBuffer)), level),
                          Binary(arrayBuffer), level)
           IN  loopHead([x1 EXCEPT !.sender.offset = @ + s.CHUNK_SIZE,
                                   !.sender.chunkIndex = @ + 1,
                                   !.sender.chunksSent = @ + 1], level)

\* a request on the store: initResumeDB() and the transaction opened on the
\* connection; after is what the caller does once it is served
Request(op, code, metadata, after) ==
  [op |-> op, code |-> code, metadata |-> metadata, after |-> after]

request(x, req) == [x EXCEPT !.disk.queue = Append(@, req)]

\* the store with the entry of a key replaced (store.put) and removed
\* (store.delete)
put(store, data) ==
  [code \in DOMAIN store \cup {data.sessionCode} |->
     IF code = data.sessionCode THEN data ELSE store[code]]

delete(store, sessionCode) ==
  [code \in DOMAIN store \ {sessionCode} |-> store[code]]

\* the data object of savePartialTransfer (sessionId, which no reader of
\* the store uses, left out)
checkpoint(r, timestamp) ==
  [sessionCode |-> r.sessionCode,
   fileMetadata |-> r.fileMetadata,
   receivedChunks |-> r.receivedChunks,
   receivedChunkMap |-> r.receivedChunkMap,
   receivedBytes |-> r.receivedBytes,
   totalChunks |-> r.totalChunks,
   timestamp |-> timestamp,
   isCompressed |-> r.isCompressed,
   originalSize |-> r.originalSize]

\* savePartialTransfer() up to "await initResumeDB()"
savePartialTransfer(x) ==
  IF x.receiver.sessionCode = Null
  THEN x
  ELSE request(x, Request("save", Null, Null, "none"))

\* deletePartialTransfer(sessionCode) up to "await initResumeDB()"
deletePartialTransfer(x, sessionCode, after) ==
  request(x, Request("delete", sessionCode, Null, after))

\* handleFileChunk(arrayBuffer)
handleFileChunk(x, arrayBuffer) ==
  LET x1 == [x EXCEPT !.receiver.receivedChunks = Append(@, arrayBuffer),
                      !.receiver.receivedBytes = @ + Len(arrayBuffer),
                      !.receiver.chunksReceived = @ + 1,
                      !.receiver.receivedChunkMap = @ \cup {x.receiver.chunksReceived}]
  IN  IF Len(x1.receiver.receivedChunks) % SAVE_EVERY = 0
      THEN savePartialTransfer(x1)
      ELSE x1

\* handleFileMetadata(metadata) up to "await loadPartialTransfer(...)"
handleFileMetadata(x, metadata) ==
  request([x EXCEPT !.receiver.fileMetadata = Just(metadata),
                    !.receiver.totalChunks = metadata.totalChunks,
                    !.receiver.receivedChunks = <<>>,
                    !.receiver.isCompressed = metadata.isCompressed,
                    !.receiver.originalSize =
                      IF metadata.originalSize # 0
                      THEN metadata.originalSize ELSE metadata.fileSize,
                    !.receiver.chunksReceived = 0],
          Request("load", x.receiver.sessionCode, Just(metadata), "handleFileMetadata"))

\* a resume offered whatever file the checkpoint is of, to test C27 against
resumeOrNot_AnyName(x, metadata, partial, resumeConfirm) ==
  IF partial = Null
  THEN x
  ELSE IF resumeConfirm
  THEN [x EXCEPT !.outcome.asked = @ + 1,
                 !.receiver.receivedChunks = partial[1].receivedChunks,
                 !.receiver.isResuming = TRUE]
  ELSE deletePartialTransfer([x EXCEPT !.outcome.asked = @ + 1],
                             x.receiver.sessionCode, "declined")

\* handleFileMetadata(metadata) after the await, partial being what
\* loadPartialTransfer returned (Null, or the stored object in a tuple) and
\* resumeConfirm the user's answer should confirm() be shown
resumeOrNot(x, metadata, partial, resumeConfirm) ==
  IF partial = Null
  THEN x
  ELSE IF partial[1].fileMetadata = Null
  THEN x
  ELSE IF partial[1].fileMetadata[1].fileName # metadata.fileName
  THEN x
  ELSE IF resumeConfirm
  THEN LET x1 == [x EXCEPT !.outcome.asked = @ + 1,
                           !.receiver.receivedChunks = partial[1].receivedChunks,
                           !.receiver.receivedChunkMap = partial[1].receivedChunkMap,
                           !.receiver.receivedBytes = partial[1].receivedBytes,
                           !.receiver.isResuming = TRUE]
       IN  IF ~x.receiver.dataChannel
           THEN x1
           ELSE [x1 EXCEPT !.wire.up = Append(@, Resume(Len(partial[1].receivedChunks))),
                           !.outcome.resumes = @ \cup {Len(partial[1].receivedChunks)}]
  ELSE deletePartialTransfer([x EXCEPT !.outcome.asked = @ + 1],
                             x.receiver.sessionCode, "declined")

\* the download handed to the browser by a.click(), and the cleanup after it
download(x, bytes) ==
  IF x.receiver.fileMetadata = Null
  THEN x
  ELSE deletePartialTransfer(
         [x EXCEPT !.outcome.downloads =
                     Append(@, [fileName |-> x.receiver.fileMetadata[1].fileName,
                                bytes |-> bytes])],
         x.receiver.sessionCode, "none")

alert(x, text) == [x EXCEPT !.outcome.alerts = Append(@, text)]

\* handleTransferComplete() up to its await, or to its end
handleTransferComplete(x) ==
  IF x.receiver.isCompressed
  THEN [x EXCEPT !.receiver.jobs = Append(@, concat(x.receiver.receivedChunks))]
  ELSE [download(x, concat(x.receiver.receivedChunks))
          EXCEPT !.outcome.completed = @ + 1]

\* the message of handleTransferComplete's catch
DecompressionFailed == "Decompression failed! File may be corrupted."

\* a failed decompression that hands over the bytes as they came, to test
\* C29 against
decompress_Raw(x, compressedData) ==
  IF ~inflates(compressedData) \/ x.receiver.fileMetadata = Null
  THEN download(alert([x EXCEPT !.outcome.completed = @ + 1], DecompressionFailed),
                compressedData)
  ELSE download([x EXCEPT !.outcome.completed = @ + 1], ungzip(compressedData))

\* handleTransferComplete() after "await compressedBlob.arrayBuffer()"
decompress(x, compressedData) ==
  LET x1 == [x EXCEPT !.outcome.completed = @ + 1]
  IN  IF ~inflates(compressedData) \/ x.receiver.fileMetadata = Null
      THEN alert(x1, DecompressionFailed)
      ELSE download(x1, ungzip(compressedData))

\* handleDataChannelMessage(data) on the receiving page
handleDataChannelMessage(x, frame) ==
  IF frame.text
  THEN CASE frame.type = "calibration-test" -> x
         [] frame.type = "resume" ->
              [x EXCEPT !.receiver.resumeFromChunk = frame.fromChunk]
         [] frame.type = "metadata" -> handleFileMetadata(x, frame.meta[1])
         [] frame.type = "chunk" ->
              [x EXCEPT !.receiver.expectingChunkData = TRUE,
                        !.receiver.currentChunkSize = frame.size]
         [] frame.type = "complete" -> handleTransferComplete(x)
         [] OTHER -> x
  ELSE IF x.receiver.expectingChunkData
  THEN [handleFileChunk(x, frame.data) EXCEPT !.receiver.expectingChunkData = FALSE]
  ELSE x

\* a page that stores every binary frame, expected or not, to test C23
\* against
onmessage_Greedy(x, frame) ==
  IF frame.text
  THEN handleDataChannelMessage([x EXCEPT !.outcome.arrived = Append(@, frame)], frame)
  ELSE handleFileChunk([x EXCEPT !.outcome.arrived = Append(@, frame)], frame.data)

\* dataChannel.onmessage on the receiving page
onmessage(x, frame) ==
  handleDataChannelMessage([x EXCEPT !.outcome.arrived = Append(@, frame)], frame)

\* handleDataChannelMessage(data) on the sending page, which is sent
\* resume frames only
resumeRequest(x, frame) ==
  IF frame.text /\ frame.type = "resume"
  THEN [x EXCEPT !.sender.resumeFromChunk = frame.fromChunk]
  ELSE x

\* the end of handleFileMetadata: the file preview is shown
showPreview(x) == [x EXCEPT !.receiver.filePreview = TRUE]

\* the request at the head of the queue is served; resumeConfirm is the
\* user's answer should a served load end in confirm().  A load, and the
\* delete a load ends in, are awaited by handleFileMetadata, which then
\* goes on to its end.
serve(x, resumeConfirm) ==
  LET req == Head(x.disk.queue)
      x1 == [x EXCEPT !.disk.queue = Tail(@)]
      store == x.disk.store
  IN  CASE req.op = "save" ->
             IF x.receiver.sessionCode = Null
             THEN x1
             ELSE [x1 EXCEPT !.disk.store = put(store, checkpoint(x.receiver, x.clock))]
        [] req.op = "delete" ->
             LET y == IF req.code = Null
                      THEN x1
                      ELSE [x1 EXCEPT !.disk.store = delete(store, req.code),
                                      !.outcome.deleted =
                                        IF req.after = "none" THEN @
                                        ELSE @ \cup {<<req.code, req.after>>}]
             IN  IF req.after \in {"declined", "expired"} THEN showPreview(y) ELSE y
        [] req.op = "load" ->
             IF req.code = Null \/ req.code \notin DOMAIN store
             THEN showPreview([x1 EXCEPT !.outcome.lookups = @ \cup
                    {[found |-> FALSE, age |-> 0, sameName |-> FALSE, offered |-> FALSE]}])
             ELSE LET data == store[req.code]
                      age == x.clock - data.timestamp
                      sameName == /\ data.fileMetadata # Null
                                  /\ data.fileMetadata[1].fileName = req.metadata[1].fileName
                      look(offered) == [found |-> TRUE, age |-> age,
                                        sameName |-> sameName, offered |-> offered]
                  IN  IF age > maxAge
                      THEN deletePartialTransfer(
                             [x1 EXCEPT !.outcome.lookups = @ \cup {look(FALSE)}],
                             req.code, "expired")
                      ELSE LET y == resumeOrNot(x1, req.metadata[1], Just(data), resumeConfirm)
                               z == IF y.disk.queue = x1.disk.queue THEN showPreview(y) ELSE y
                           IN  [z EXCEPT !.outcome.lookups = @ \cup
                                  {look(y.outcome.asked > x.outcome.asked)}]

\* the times, in milliseconds, the two sends of the probe may take: one
\* for each chunk size, at the edges of the ranges
SendDurations == {0, 20, 50, 100}

\* the code the receiving page joined with
JoinedCode == <<"K">>

\* the transfer has not begun: no file chosen, no channel, nothing stored
TransferIdle ==
  /\ sender = Sender(Null, MIN_CHUNK_SIZE)
  /\ receiver = Receiver(Null)
  /\ wire = Wire
  /\ disk = Disk(EmptyMap)
  /\ clock = 0
  /\ outcome = NoOutcome

\* a reset that leaves the file and the channel of the page in place, to
\* test C22 against
resetSender_KeepsChannel(s) ==
  [s EXCEPT !.isCompressed = FALSE, !.originalSize = 0, !.compressedSize = 0,
            !.bufferStalls = 0, !.chunksSent = 0, !.resumeFromChunk = 0]

\* AppState.reset() on the fields the sending page's transfer uses
resetSender(s) ==
  [s EXCEPT !.selectedFile = Null, !.dataChannel = FALSE,
            !.isCompressed = FALSE, !.originalSize = 0, !.compressedSize = 0,
            !.bufferStalls = 0, !.chunksSent = 0, !.resumeFromChunk = 0]

-----------------------------------------------------------------------------
(* The coordinator as a state machine: one action per public operation,    *)
(* and the clock.  A call's return value is the ret field of the           *)
(* operation applied to the state the call finds.                          *)

Cur == Store(sessions, codeToSessionId, sessionCounter)

GenIdle == [pc |-> "idle", seed |-> 0, i |-> 0, state |-> <<0, 0>>, index |-> 0, code |-> <<>>]

Commit(out) ==
  /\ sessions' = out.st.sessions
  /\ codeToSessionId' = out.st.codeToSessionId
  /\ sessionCounter' = out.st.sessionCounter
  /\ UNCHANGED <<now, gen>>
  /\ UNCHANGED clientVars
  /\ UNCHANGED transferVars

RECURSIVE queued(_)
queued(signals) ==
  IF signals = <<>> THEN 0 ELSE Len(Head(signals)[2]) + queued(Tail(signals))

\* the sessions that have peers
occupied(st) == {sid \in DOMAIN st.sessions : st.sessions[sid].peers # <<>>}

RECURSIVE sumOver(_, _)
sumOver(f, keys) ==
  IF keys = {} THEN 0
  ELSE LET k == CHOOSE x \in keys : TRUE IN f[k] + sumOver(f, keys \ {k})

QueuesWithin(st) ==
  sumOver([sid \in occupied(st) |-> queued(st.sessions[sid].signals)],
          occupied(st)) <= MaxQueue

PeersWithin(st) ==
  sumOver([sid \in occupied(st) |-> Len(st.sessions[sid].peers)],
          occupied(st)) <= MaxRegistered

UnknownCode == <<"A", "A", "A", "A", "A", "A">>

UnknownSession == <<0, 0>>

\* the TTL in ticks
TtlTicks == SESSION_TTL_SECONDS * TicksPerSecond

\* instants of the clock explored: the start, and a fraction of a second
\* and a whole second past the TTL
Instants == {0, TtlTicks + 1, TtlTicks + TicksPerSecond}

Init ==
  /\ sessions = EmptyMap
  /\ codeToSessionId = EmptyMap
  /\ sessionCounter = 0
  /\ now = 0
  /\ gen = GenIdle
  /\ ClientInit
  /\ TransferIdle

CreateSession(residue, cap) ==
  LET out == createSession(Cur, now, residue)
  IN  /\ Cardinality(DOMAIN out.st.sessions) <= cap
      /\ Commit(out)

RegisterPeer(code, peerId) ==
  LET out == registerPeer(Cur, now, code, peerId)
  IN  /\ PeersWithin(out.st)
      /\ Commit(out)

SendSignal(sessionId, fromPeerId, signal) ==
  LET out == sendSignal(Cur, now, sessionId, fromPeerId, signal)
  IN  /\ QueuesWithin(out.st)
      /\ Commit(out)

GetSignals(sessionId, peerId) ==
  Commit(getSignals(Cur, now, sessionId, peerId))

ClearSignals(sessionId, peerId) ==
  Commit(clearSignals(Cur, now, sessionId, peerId))

GetSessionInfo(code) ==
  Commit(getSessionInfo(Cur, now, code))

\* Time.now() moves on between calls
Tick(t) ==
  /\ t > now
  /\ now' = t
  /\ UNCHANGED <<sessions, codeToSessionId, sessionCounter, gen>>
  /\ UNCHANGED clientVars
  /\ UNCHANGED transferVars

CodesIn == DOMAIN codeToSessionId \cup {UnknownCode}

SessionsIn == DOMAIN sessions \cup {UnknownSession}

Next ==
  \/ \E r \in Residues : CreateSession(r, MaxSessions)
  \/ \E c \in CodesIn, p \in PeerIds : RegisterPeer(c, p)
  \/ \E sid \in SessionsIn, p \in PeerIds, sig \in Signals : SendSignal(sid, p, sig)
  \/ \E sid \in SessionsIn, p \in PeerIds : GetSignals(sid, p)
  \/ \E sid \in SessionsIn, p \in PeerIds : ClearSignals(sid, p)
  \/ \E c \in CodesIn : GetSessionInfo(c)
  \/ \E t \in Instants : Tick(t)

Spec == Init /\ [][Next]_vars

-----------------------------------------------------------------------------
(* Vocabulary of the claims *)

\* whole seconds elapsed since the session was created
WholeSeconds(session) == (now - session.createdAt) \div TicksPerSecond

LiveNow(session) == WholeSeconds(session) <= 600

\* the session a code resolves to, if any
Resolves(code) ==
  code \in DOMAIN codeToSessionId /\ codeToSessionId[code] \in DOMAIN sessions

SessionOf(code) == sessions[codeToSessionId[code]]

mailbox(session, peerId) == getPeerSignals(session, peerId)

Distinct(seq) == \A i, j \in 1..Len(seq) : i # j => seq[i] # seq[j]

-----------------------------------------------------------------------------
(* C1: for every live session and every peer id already registered in it,  *)
(* with 1 or 2 peers, registerPeer(code, peerId) returns success with the  *)
(* same sessionId and leaves the session unchanged, the peer entry not     *)
(* duplicated.                                                             *)
C1_ReRegisterIdempotent ==
  \A code \in DOMAIN codeToSessionId :
    (Resolves(code) /\ LiveNow(SessionOf(code))) =>
      \A p \in peerIds(SessionOf(code)) :
        LET sid == codeToSessionId[code]
            out == registerPeer(Cur, now, code, p)
        IN  /\ out.ret = Ok(sid)
            /\ sid \in DOMAIN out.st.sessions
            /\ out.st.sessions[sid] = sessions[sid]

(* C2: each session has at most 2 peers with pairwise distinct ids, is     *)
(* locked exactly when it has 2 peers, and has exactly one mailbox entry   *)
(* per registered peer and none for anyone else; getSessionInfo reports    *)
(* that peer count and lock.                                               *)
C2_SessionShape ==
  /\ \A sid \in DOMAIN sessions :
       LET s == sessions[sid]
       IN  /\ Len(s.peers) <= 2
           /\ Distinct([i \in 1..Len(s.peers) |-> s.peers[i].id])
           /\ s.isLocked = (Len(s.peers) = 2)
           /\ Len(s.signals) = Len(s.peers)
           /\ {s.signals[i][1] : i \in 1..Len(s.signals)} = peerIds(s)
  /\ \A code \in DOMAIN codeToSessionId :
       Resolves(code) =>
         LET info == getSessionInfo(Cur, now, code).ret
         IN  /\ info.tag = "some"
             /\ info.val.peerCount = Cardinality(peerIds(SessionOf(code)))
             /\ info.val.isLocked = (Cardinality(peerIds(SessionOf(code))) = 2)

C2_Witness ==
  \E code \in DOMAIN codeToSessionId :
    /\ Resolves(code)
    /\ peerIds(SessionOf(code)) = {"A", "B"}
    /\ getSessionInfo(Cur, now, code).ret.val.peerCount = 2
    /\ getSessionInfo(Cur, now, code).ret.val.isLocked

\* the outcome C3 claims for a third peer id p on the session under code
ThirdPeerRejected(code, p) ==
  LET sid == codeToSessionId[code]
      out == registerPeer(Cur, now, code, p)
  IN  /\ out.ret = Err("Session is full")
      /\ sid \in DOMAIN out.st.sessions
      /\ out.st.sessions[sid] = sessions[sid]

C4_SendToOtherInOrder ==
  \A sid \in DOMAIN sessions :
    LET s == sessions[sid]
    IN  Len(s.peers) = 2 =>
          \A a \in peerIds(s), sig \in Signals :
            LET b == CHOOSE p \in peerIds(s) : p # a
                out == sendSignal(Cur, now, sid, a, sig)
            IN  out.ret.tag = "ok" =>
                  /\ mailbox(out.st.sessions[sid], b) = Append(mailbox(s, b), sig)
                  /\ mailbox(out.st.sessions[sid], a) = mailbox(s, a)
                  /\ out.st.sessions[sid].peers = s.peers

C4_Witness ==
  \E sid \in DOMAIN sessions :
    LET s == sessions[sid]
    IN  /\ Len(s.peers) = 2
        /\ s.peers[1].id = "A" /\ s.peers[2].id = "B"
        /\ mailbox(s, "B") = <<"offer">>
        /\ mailbox(s, "A") = <<>>
        /\ sendSignal(Cur, now, sid, "A", "ice").ret.tag = "ok"
        /\ mailbox(sendSignal(Cur, now, sid, "A", "ice").st.sessions[sid], "B")
             = <<"offer", "ice">>

\* the payloads a poll returns, if it returns any
Polled(st, t, sid, p) == getSignals(st, t, sid, p).ret

\* the stores the calls other than sendSignal and clearSignals leave
AfterOtherCalls ==
  {createSession(Cur, now, r).st : r \in Residues}
    \cup {registerPeer(Cur, now, c, q).st : c \in CodesIn, q \in PeerIds}
    \cup {getSignals(Cur, now, sid, q).st : sid \in SessionsIn, q \in PeerIds}
    \cup {getSessionInfo(Cur, now, c).st : c \in CodesIn}

Absent(st, sid) ==
  /\ sid \notin DOMAIN st.sessions
  /\ \A code \in DOMAIN st.codeToSessionId : st.codeToSessionId[code] # sid

(* C6: for any session whose age strictly exceeds the 600-second TTL,      *)
(* registerPeer with its code and sendSignal with its session id never     *)
(* succeed: each returns the expired error (for registerPeer, the error    *)
(* of the sweep, not found or expired, is accepted too), and after the     *)
(* call the session is absent from the session table and the code index.   *)
C6_ExpiredUnreachable ==
  \A sid \in DOMAIN sessions :
    LET s == sessions[sid]
    IN  now - s.createdAt > SESSION_TTL_SECONDS * TicksPerSecond =>
          \A p \in PeerIds, sig \in Signals :
            LET r == registerPeer(Cur, now, s.code, p)
                d == sendSignal(Cur, now, sid, p, sig)
            IN  /\ r.ret \in {Err("Session expired"), Err("Session not found or expired")}
                /\ Absent(r.st, sid)
                /\ d.ret = Err("Session expired")
                /\ Absent(d.st, sid)

(* C7: the code index and the session table agree: each code-index entry   *)
(* points to an existing session whose code is that key, each stored       *)
(* session is reachable through its own code, and no two live sessions     *)
(* share a code.                                                           *)
C7_IndexAgrees ==
  /\ \A code \in DOMAIN codeToSessionId :
       /\ codeToSessionId[code] \in DOMAIN sessions
       /\ sessions[codeToSessionId[code]].code = code
  /\ \A sid \in DOMAIN sessions :
       /\ sessions[sid].code \in DOMAIN codeToSessionId
       /\ codeToSessionId[sessions[sid].code] = sid
  /\ \A s1, s2 \in DOMAIN sessions :
       (s1 # s2 /\ LiveNow(sessions[s1]) /\ LiveNow(sessions[s2])) =>
         sessions[s1].code # sessions[s2].code

(* C8: createSession never stores a new session under, nor overwrites the  *)
(* code-index entry of, a code that a live session already holds: when     *)
(* every candidate is taken it creates no session.                         *)
C8_NoOverwrite ==
  [][\A sid \in DOMAIN sessions' \ DOMAIN sessions :
       \A old \in DOMAIN sessions :
         LiveNow(sessions[old]) =>
           /\ sessions[old].code # sessions'[sid].code
           /\ codeToSessionId'[sessions[old].code] = old]_vars

(* C9: for every seed generateCode returns exactly 6 characters, each of   *)
(* the 36-symbol alphabet A-Z0-9, the mixer state staying within           *)
(* 0..2^32-1 and the character index within 0..35 at every step; the seeds *)
(* include every candidate seed createSession passes for the explored      *)
(* counters, and the code returned is the one createSession stores.        *)
C9_CodeForm ==
  gen.pc # "idle" =>
    /\ gen.state[1] \in 0..(Limb - 1)
    /\ gen.state[2] \in 0..(Limb - 1)
    /\ gen.index \in 0..35
    /\ gen.i <= 6
    /\ Len(gen.code) = gen.i
    /\ \A k \in 1..Len(gen.code) :
         gen.code[k] \in {"A","B","C","D","E","F","G","H","I","J","K","L","M",
                          "N","O","P","Q","R","S","T","U","V","W","X","Y","Z",
                          "0","1","2","3","4","5","6","7","8","9"}
    /\ gen.pc = "done" =>
         /\ Len(gen.code) = 6
         /\ gen.code = generateCode(gen.seed)

C9_Witness ==
  /\ gen.pc = "done"
  /\ gen.seed = baseSeedOf(0, 1)
  /\ gen.code = <<"C", "7", "2", "T", "8", "Z">>
  /\ createSession(Store(EmptyMap, EmptyMap, 0), 0, 0).ret.code = gen.code

(* C10: on a live session, sendSignal by a peer id that is not a member    *)
(* fails with PeerNotRegistered and sendSignal by the only registered peer *)
(* fails with NoPeer; in both cases nothing of the store changes.          *)
C10_SendRejected ==
  \A sid \in DOMAIN sessions :
    LET s == sessions[sid]
    IN  LiveNow(s) =>
          \A p \in PeerIds, sig \in Signals :
            LET out == sendSignal(Cur, now, sid, p, sig)
            IN  /\ p \notin peerIds(s) =>
                     out = Out(Cur, Err("Peer not registered in this session"))
                /\ peerIds(s) = {p} =>
                     out = Out(Cur, Err("No other peer in session yet"))

C10_Witness ==
  \E sid \in DOMAIN sessions :
    /\ LiveNow(sessions[sid])
    /\ peerIds(sessions[sid]) = {"A"}
    /\ sendSignal(Cur, now, sid, "A", "offer").ret = Err("No other peer in session yet")
    /\ sendSignal(Cur, now, sid, "B", "offer").ret
         = Err("Peer not registered in this session")

(* C11: clearSignals(sessionId, peerId) for a registered peer empties that *)
(* peer's mailbox and leaves the other peer's mailbox, the peer list,      *)
(* isLocked, createdAt, the other sessions and the code index unchanged; a *)
(* signal sent to that peer afterwards is the only element of its queue.   *)
C11_ClearFrame ==
  \A sid \in DOMAIN sessions :
    LET s == sessions[sid]
    IN  \A p \in peerIds(s) :
          LET out == clearSignals(Cur, now, sid, p)
              s2 == out.st.sessions[sid]
          IN  /\ out.ret = Ok(Unit)
              /\ DOMAIN out.st.sessions = DOMAIN sessions
              /\ mailbox(s2, p) = <<>>
              /\ \A q \in peerIds(s) \ {p} : mailbox(s2, q) = mailbox(s, q)
              /\ Len(s2.signals) = Len(s.signals)
              /\ s2.peers = s.peers
              /\ s2.isLocked = s.isLocked
              /\ s2.createdAt = s.createdAt
              /\ s2.id = s.id /\ s2.code = s.code
              /\ \A other \in DOMAIN sessions \ {sid} :
                   out.st.sessions[other] = sessions[other]
              /\ out.st.codeToSessionId = codeToSessionId
              /\ out.st.sessionCounter = sessionCounter
              /\ \A q \in peerIds(s) \ {p}, sig \in Signals :
                   LET snd == sendSignal(out.st, now, sid, q, sig)
                   IN  snd.ret.tag = "ok" =>
                         mailbox(snd.st.sessions[sid], p) = <<sig>>

C11_Witness ==
  \E sid \in DOMAIN sessions :
    LET s == sessions[sid]
        out == clearSignals(Cur, now, sid, "B")
    IN  /\ peerIds(s) = {"A", "B"}
        /\ mailbox(s, "B") = <<"offer">>
        /\ mailbox(s, "A") = <<"ice">>
        /\ mailbox(out.st.sessions[sid], "B") = <<>>
        /\ mailbox(out.st.sessions[sid], "A") = <<"ice">>
        /\ mailbox(sendSignal(out.st, now, sid, "A", "ice").st.sessions[sid], "B")
             = <<"ice">>

(* C12: the pure queries never mutate or delete, even for an expired       *)
(* session: for a stored session whose age exceeds the 600-second TTL,     *)
(* getSessionInfo returns a snapshot with isExpired = true and the stored  *)
(* peerCount and isLocked, getSignals returns Expired, and both leave the  *)
(* session and its code-index entry in place.                              *)
C12_QueriesOnExpired ==
  \A sid \in DOMAIN sessions :
    LET s == sessions[sid]
    IN  (now - s.createdAt > SESSION_TTL_SECONDS * TicksPerSecond
           /\ s.code \in DOMAIN codeToSessionId
           /\ codeToSessionId[s.code] = sid) =>
          LET info == getSessionInfo(Cur, now, s.code)
          IN  /\ info.st = Cur
              /\ info.ret.tag = "some"
              /\ info.ret.val.isExpired
              /\ info.ret.val.peerCount = Len(s.peers)
              /\ info.ret.val.isLocked = s.isLocked
              /\ \A p \in PeerIds :
                   getSignals(Cur, now, sid, p) = Out(Cur, Err("Session expired"))

\* both sends succeed, in the order a then b, the second at time t
BothSent(sid, a, x, b, y, t) ==
  LET one == sendSignal(Cur, now, sid, a, x)
      two == sendSignal(one.st, t, sid, b, y)
  IN  [ok |-> one.ret = Ok(Unit) /\ two.ret = Ok(Unit), st |-> two.st]

\* the two orders of the calls agree and each payload is in the other's queue
SendsCommute(sid, a, x, b, y, t) ==
  LET s == sessions[sid]
      ab == BothSent(sid, a, x, b, y, t)
      ba == BothSent(sid, b, y, a, x, t)
  IN  /\ ab.ok /\ ba.ok
      /\ ab.st = ba.st
      /\ mailbox(ab.st.sessions[sid], b) = Append(mailbox(s, b), x)
      /\ mailbox(ab.st.sessions[sid], a) = Append(mailbox(s, a), y)

(* C13 as stated: with two registered peers A and B, sendSignal calls from *)
(* A and from B both succeed in either order and leave the same mailboxes: *)
(* A's payload appended only to B's queue and B's only to A's.             *)
C13_SendsCommute_AnyAge ==
  \A sid \in DOMAIN sessions :
    LET s == sessions[sid]
    IN  Len(s.peers) = 2 =>
          \A x, y \in Signals :
            SendsCommute(sid, s.peers[1].id, x, s.peers[2].id, y, now)

(* C13 as amended: with two registered peers A and B in a session that has *)
(* not expired when the calls are made, sendSignal calls from A and from B *)
(* both succeed in either order and leave the same mailboxes: A's payload  *)
(* appended only to B's queue and B's only to A's.                         *)
C13_SendsCommute ==
  \A sid \in DOMAIN sessions :
    LET s == sessions[sid]
    IN  Len(s.peers) = 2 =>
          \A x, y \in Signals, t \in Instants \cup {now} :
            (t >= now /\ ~isSessionExpired(s, t)) =>
              SendsCommute(sid, s.peers[1].id, x, s.peers[2].id, y, t)

C13_Witness ==
  \E sid \in DOMAIN sessions :
    LET s == sessions[sid]
    IN  /\ Len(s.peers) = 2
        /\ s.peers[1].id = "A" /\ s.peers[2].id = "B"
        /\ mailbox(s, "B") = <<"offer">>
        /\ BothSent(sid, "A", "ice", "B", "offer", now).ok
        /\ mailbox(BothSent(sid, "B", "offer", "A", "ice", now).st.sessions[sid], "B")
             = <<"offer", "ice">>
        /\ mailbox(BothSent(sid, "B", "offer", "A", "ice", now).st.sessions[sid], "A")
             = <<"offer">>

-----------------------------------------------------------------------------
(* generateCode step by step: gen is the position of the loop of           *)
(* generateCode(gen.seed) after gen.i iterations.                          *)

GenSeeds ==
  (0..MaxSeed)
    \cup {baseSeedOf(r, c) + k * RETRY_PRIME :
            r \in Residues, c \in 1..MaxCounter, k \in 0..MAX_ATTEMPTS}
    \cup {2147483647}

GenStart(seed) ==
  [pc |-> "loop", seed |-> seed, i |-> 0, state |-> ToWord(seed), index |-> 0, code |-> <<>>]

GenInit ==
  /\ sessions = EmptyMap
  /\ codeToSessionId = EmptyMap
  /\ sessionCounter = 0
  /\ now = 0
  /\ gen \in {GenStart(seed) : seed \in GenSeeds}
  /\ ClientInit
  /\ TransferIdle

\* one iteration of the loop body
GenStep ==
  /\ gen.pc = "loop"
  /\ gen.i \in iterRange
  /\ LET s == mixStep(gen.state)
     IN  gen' = [gen EXCEPT !.state = s,
                            !.index = charIndex(s),
                            !.code = Append(gen.code, charsArray[charIndex(s) + 1]),
                            !.i = gen.i + 1]
  /\ UNCHANGED <<sessions, codeToSessionId, sessionCounter, now>>
  /\ UNCHANGED clientVars
  /\ UNCHANGED transferVars

\* the loop is over and the code is returned
GenReturn ==
  /\ gen.pc = "loop"
  /\ gen.i \notin iterRange
  /\ gen' = [gen EXCEPT !.pc = "done"]
  /\ UNCHANGED <<sessions, codeToSessionId, sessionCounter, now>>
  /\ UNCHANGED clientVars
  /\ UNCHANGED transferVars

GenNext == GenStep \/ GenReturn

GenSpec == GenInit /\ [][GenNext]_vars

-----------------------------------------------------------------------------
(* The store with every candidate code of one createSession call taken:   *)
(* MAX_ATTEMPTS + 1 calls of createSession, call i at a time whose residue *)
(* is ExResidue(i), store session i under the code of seed                 *)
(* ExBase + (i - 1) * RETRY_PRIME, which is the i-th candidate of the next *)
(* call when that call's residue is 0.  The other calls are explored from  *)
(* there on, for the sessions that hold the last candidate code.           *)

ExCount == MAX_ATTEMPTS + 1

ExBase == baseSeedOf(0, ExCount + 1)

ExResidue(i) == (ExCount + 1 - i) * COUNTER_PRIME + (i - 1) * RETRY_PRIME

\* the last candidate code of the call with residue 0
ExCode == generateCode(ExBase + MAX_ATTEMPTS * RETRY_PRIME)

\* residue 0: every candidate is taken; the other residue: only the first is
ExResidues == {0, MAX_ATTEMPTS * RETRY_PRIME}

ExFilled == sessionCounter >= ExCount

ExFillStep ==
  /\ ~ExFilled
  /\ CreateSession(ExResidue(sessionCounter + 1), ExCount)

ExCodesIn == {ExCode}

ExSessionsIn ==
  {sid \in DOMAIN sessions : sessions[sid].code = ExCode \/ sid[1] > ExCount}

ExPeers == {"A", "B"}

ExSignals == {"offer"}

\* the call after the fill
ExCreate(residue) ==
  /\ sessionCounter = ExCount
  /\ CreateSession(residue, ExCount + 1)

ExNext ==
  \/ ExFillStep
  \/ \E r \in ExResidues : ExCreate(r)
  \/ \E c \in ExCodesIn, p \in ExPeers : ExFilled /\ RegisterPeer(c, p)
  \/ \E sid \in ExSessionsIn, p \in ExPeers, sig \in ExSignals :
       ExFilled /\ SendSignal(sid, p, sig)
  \/ \E sid \in ExSessionsIn, p \in ExPeers : ExFilled /\ GetSignals(sid, p)
  \/ \E sid \in ExSessionsIn, p \in ExPeers : ExFilled /\ ClearSignals(sid, p)
  \/ \E c \in ExCodesIn : ExFilled /\ GetSessionInfo(c)
  \/ \E t \in Instants : ExFilled /\ Tick(t)

SpecExhaust == Init /\ [][ExNext]_vars

-----------------------------------------------------------------------------
(* The page as a state machine, with the canister and the remote peer.     *)
(* The user picks a file, joins with a code and cancels; the intervals     *)
(* fire; the functions in flight resume at their awaits; the remote peer   *)
(* creates a session, registers and sends signals.                         *)

Ctx == [app |-> appState, timers |-> timers, conns |-> conns, trace |-> trace, st |-> Cur]

\* the fields of AppState the signalling writes
watched(app) == <<app.remoteDescriptionSet, app.pendingIceCandidates, app.processedSignals>>

\* what an activation started before the last resetApp has still done
noteStale(c0, c1, era, issued) ==
  LET done == (IF watched(c1.app) # watched(c0.app) THEN {"state"} ELSE {})
                \cup (IF issued THEN {"call"} ELSE {})
  IN  IF era < c0.trace.era
      THEN [c1 EXCEPT !.trace.stale = @ \cup done]
      ELSE c1

\* the awaits at which a call of the canister is out
CallPcs == {"registerPeer", "sendOffer", "offer_sendSignal", "clearSignals"}

ClientWithin(c) ==
  /\ c.trace.era <= MaxResets + 1
  /\ \A k \in 1..Len(c.conns) : Len(c.conns[k].ops) <= MaxOps
  /\ sumOver([sid \in occupied(c.st) |-> queued(c.st.sessions[sid].signals)],
             occupied(c.st)) <= MaxMail
  /\ Cardinality(DOMAIN c.st.sessions) <= MaxStarts

PageCommit(c, ts) ==
  /\ ClientWithin(c)
  /\ appState' = c.app
  /\ timers' = c.timers
  /\ conns' = c.conns
  /\ trace' = c.trace
  /\ tasks' = ts
  /\ sessions' = c.st.sessions
  /\ codeToSessionId' = c.st.codeToSessionId
  /\ sessionCounter' = c.st.sessionCounter
  /\ UNCHANGED <<now, gen>>

\* the page's step, and the transfer as it was
ClientCommit(c, ts) ==
  /\ PageCommit(c, ts)
  /\ UNCHANGED transferVars

\* fileInput "change": createSession() runs to its first await
SelectFile(limit) ==
  /\ trace.starts < limit
  /\ ClientCommit([Ctx EXCEPT !.trace.starts = @ + 1],
                  tasks \cup {NewTask("create", trace.starts + 1, "createSession", trace.era)})

\* createSession() after "await canister.createSession()"
CreateSessionReturns(task, residue) ==
  /\ task \in tasks /\ task.pc = "createSession"
  /\ LET out == createSession(Cur, now, residue)
         c1 == [called(Ctx, out) EXCEPT !.app.sessionId = out.ret.sessionId,
                                       !.app.sessionCode = out.ret.code]
     IN  ClientCommit(noteStale(Ctx, c1, task.era, TRUE),
                      (tasks \ {task})
                        \cup {[task EXCEPT !.pc = "registerPeer", !.arg = out.ret.code]})

\* createSession() after "await canister.registerPeer(...)"
RegisterPeerReturns(task) ==
  /\ task \in tasks /\ task.pc = "registerPeer"
  /\ LET out == registerPeer(Cur, now, task.arg, appState.peerId)
         c1 == called(Ctx, out)
     IN  IF out.ret.tag = "err"
         THEN ClientCommit(resetApp(c1), tasks \ {task})
         ELSE ClientCommit(setInterval(c1, "check", task.era),
                           (tasks \ {task})
                             \cup {[task EXCEPT !.pc = "waitForOtherPeer",
                                                !.handle = trace.handles + 1]})

\* the interval callback of waitForOtherPeer; when it resolves the promise
\* createSession() goes on into setupWebRTCConnection(true), up to
\* "await state.peerConnection.createOffer()"
WaitTick(t) ==
  /\ t \in timers /\ t.kind = "check"
  /\ LET info == getSessionInfo(Cur, now, appState.sessionCode).ret
         waiting == {w \in tasks : w.pc = "waitForOtherPeer" /\ w.handle = t.id}
         c1 == callOn(newPeerConnection(clearInterval(Ctx, t.id)), <<"createOffer">>)
     IN  IF info.tag = "some" /\ info.val.peerCount >= 2
         THEN ClientCommit(noteStale(Ctx, c1, t.era, TRUE),
                           (tasks \ waiting)
                             \cup {[w EXCEPT !.pc = "createOffer"] : w \in waiting})
         ELSE ClientCommit(noteStale(Ctx, Ctx, t.era, appState.sessionCode # Null), tasks)

\* setupWebRTCConnection(true) after createOffer: setLocalDescription is
\* called on state.peerConnection; if that is null the TypeError is caught
\* by createSession(), which calls resetApp()
OfferCreated(task) ==
  /\ task \in tasks /\ task.pc = "createOffer"
  /\ IF appState.peerConnection = NoHandle
     THEN ClientCommit(noteStale(Ctx, resetApp(Ctx), task.era, FALSE), tasks \ {task})
     ELSE ClientCommit(callOn(Ctx, <<"setLocalDescription">>),
                       (tasks \ {task}) \cup {[task EXCEPT !.pc = "setLocalDescription"]})

\* setupWebRTCConnection(true) after setLocalDescription: the offer is sent
\* to state.sessionId; if that is null the call throws before it is sent,
\* sendSignalToCanister swallows it and createSession() starts the poll
OfferReady(task) ==
  /\ task \in tasks /\ task.pc = "setLocalDescription"
  /\ IF appState.sessionId = Null
     THEN ClientCommit(startPollingForSignals(Ctx, task.era), tasks \ {task})
     ELSE ClientCommit(noteStale(Ctx, Ctx, task.era, TRUE),
                       (tasks \ {task})
                         \cup {[task EXCEPT !.pc = "sendOffer", !.arg = appState.sessionId]})

\* how many peers the session a signal is sent to has
peerCountOf(st, sid) ==
  IF sid \in DOMAIN st.sessions THEN Len(st.sessions[sid].peers) ELSE 0

\* sendSignalToCanister(offer) returns, and createSession() starts the poll
OfferSent(task) ==
  /\ task \in tasks /\ task.pc = "sendOffer"
  /\ LET out == sendSignal(Cur, now, task.arg, appState.peerId, OfferSignal)
         c1 == [called(Ctx, out) EXCEPT !.trace.offers =
                  @ \cup {[peerCount |-> peerCountOf(Cur, task.arg), ret |-> out.ret]}]
     IN  ClientCommit(startPollingForSignals(c1, task.era), tasks \ {task})

\* btnJoin "click": joinSession(code), the canister answering registerPeer
JoinSession(code, limit) ==
  /\ trace.starts < limit
  /\ LET out == registerPeer(Cur, now, code, appState.peerId)
         c1 == [called(Ctx, out) EXCEPT !.trace.starts = @ + 1]
         c2 == [c1 EXCEPT !.app.sessionId = out.ret.val, !.app.sessionCode = code]
     IN  IF out.ret.tag = "err"
         THEN ClientCommit(c1, tasks)
         ELSE ClientCommit(startPollingForSignals(newPeerConnection(c2), trace.era), tasks)

\* btnCancelSend, btnCancelReceive, backBtn "click"
Cancel ==
  /\ trace.starts > 0
  /\ trace.era < MaxResets
  /\ ClientCommit(resetApp(Ctx), tasks)

PollTaskIds == 1..MaxOverlap

\* the interval callback of startPollingForSignals fires
PollTick(t) ==
  /\ t \in timers /\ t.kind = "poll"
  /\ \E n \in PollTaskIds :
       /\ \A task \in tasks : task.kind = "poll" => task.n # n
       /\ \A m \in PollTaskIds : m < n => \E task \in tasks : task.kind = "poll" /\ task.n = m
       /\ LET r == pollTick(Ctx, NewTask("poll", n, "getSignals", t.era))
          IN  ClientCommit(noteStale(Ctx, r.c, t.era,
                                     appState.sessionId # Null),
                           IF r.live THEN tasks \cup {r.task} ELSE tasks)

\* the promises that can reject: setRemoteDescription
Outcomes(task) ==
  IF task.pc \in {"offer_setRemoteDescription", "answer_setRemoteDescription"}
  THEN {TRUE, FALSE}
  ELSE {TRUE}

\* an interval callback resumes at its await
PollResume(task, ok) ==
  /\ task \in tasks /\ task.kind = "poll"
  /\ ok \in Outcomes(task)
  /\ LET r == pollResume(Ctx, task, ok)
     IN  ClientCommit(noteStale(Ctx, r.c, task.era,
                                r.live /\ r.task.pc \in CallPcs /\ r.task.pc # task.pc
                                  /\ r.task.arg # Null),
                      IF r.live THEN (tasks \ {task}) \cup {r.task} ELSE tasks \ {task})

\* the remote peer creates a session and registers in it
RemoteCreate(residue) ==
  LET made == createSession(Cur, now, residue)
      out == registerPeer(made.st, now, made.ret.code, RemotePeerId)
  IN  ClientCommit(called(Ctx, out), tasks)

\* the remote peer joins a session
RemoteRegister(code) ==
  LET out == registerPeer(Cur, now, code, RemotePeerId)
  IN  /\ out.ret.tag = "ok"
      /\ out.st # Cur
      /\ ClientCommit(called(Ctx, out), tasks)

\* the remote peer sends a signal, each one once in a session
RemoteSend(sid, signal) ==
  LET out == sendSignal(Cur, now, sid, RemotePeerId, signal)
  IN  /\ <<sid, signal>> \notin trace.sent
      /\ out.ret.tag = "ok"
      /\ ClientCommit([called(Ctx, out) EXCEPT !.trace.sent = @ \cup {<<sid, signal>>}],
                      tasks)

Candidates == {IceSignal(<<"1">>), IceSignal(<<"2">>)}

\* what the remote peer sends in a session: the offer if it came first, the
\* answer if it came second, and its candidates
RemoteSignals(sid) ==
  IF sessions[sid].peers # <<>> /\ sessions[sid].peers[1].id = RemotePeerId
  THEN {OfferSignal} \cup Candidates
  ELSE {AnswerSignal} \cup Candidates

\* a page that runs one session, started or joined
ClientNext ==
  \/ SelectFile(1)
  \/ \E task \in tasks, r \in Residues : CreateSessionReturns(task, r)
  \/ \E task \in tasks : RegisterPeerReturns(task)
  \/ \E t \in timers : WaitTick(t)
  \/ \E task \in tasks : OfferCreated(task)
  \/ \E task \in tasks : OfferReady(task)
  \/ \E task \in tasks : OfferSent(task)
  \/ \E code \in DOMAIN codeToSessionId : JoinSession(code, 1)
  \/ \E t \in timers : PollTick(t)
  \/ \E task \in tasks, ok \in BOOLEAN : PollResume(task, ok)
  \/ \E r \in Residues : sessions = EmptyMap /\ trace.starts = 0 /\ RemoteCreate(r)
  \/ \E code \in DOMAIN codeToSessionId : RemoteRegister(code)
  \/ \E sid \in DOMAIN sessions : \E signal \in RemoteSignals(sid) : RemoteSend(sid, signal)

ClientSpec == Init /\ [][ClientNext]_vars

\* a page that starts sessions and cancels them; the remote peer joins and
\* answers
SessionNext ==
  \/ SelectFile(MaxStarts)
  \/ \E task \in tasks, r \in Residues : CreateSessionReturns(task, r)
  \/ \E task \in tasks : RegisterPeerReturns(task)
  \/ \E t \in timers : WaitTick(t)
  \/ \E task \in tasks : OfferCreated(task)
  \/ \E task \in tasks : OfferReady(task)
  \/ \E task \in tasks : OfferSent(task)
  \/ Cancel
  \/ \E t \in timers : (\A task \in tasks : task.kind # "poll") /\ PollTick(t)
  \/ \E task \in tasks, ok \in BOOLEAN : PollResume(task, ok)
  \/ \E code \in DOMAIN codeToSessionId : RemoteRegister(code)
  \/ \E sid \in DOMAIN sessions : RemoteSend(sid, AnswerSignal)

SessionSpec == Init /\ [][SessionNext]_vars

-----------------------------------------------------------------------------
(* Vocabulary of the claims about the page *)

\* the positions of the calls of op on connection k
callsOf(k, op) == {i \in 1..Len(conns[k].ops) : conns[k].ops[i] = op}

\* the positions at which a remote description became set on connection k
remoteSetAt(k) ==
  {i \in 1..Len(conns[k].ops) : conns[k].ops[i][1] = "remoteDescription"}

\* the positions of the applications of candidates on connection k
appliedAt(k) ==
  {i \in 1..Len(conns[k].ops) : conns[k].ops[i][1] = "addIceCandidate"}

\* where the handler first received candidate cand in this era, 0 if never
receivedAt(cand) ==
  LET hits == {i \in 1..Len(trace.received) : trace.received[i][1] = cand}
  IN  IF hits = {} THEN 0 ELSE CHOOSE i \in hits : \A j \in hits : i <= j

(* C14: on each peer connection no ice-candidate is applied before the     *)
(* remote description has been set; candidates received earlier are        *)
(* buffered in arrival order and, once the remote description is set, are  *)
(* applied in that order before any candidate received later.              *)
C14_CandidatesAfterRemote ==
  /\ \A k \in 1..Len(conns) :
       /\ \A i \in appliedAt(k) : \E j \in remoteSetAt(k) : j < i
       /\ \A i, j \in 1..Len(trace.received) :
            (i < j /\ trace.received[i][2]) =>
              \A q \in callsOf(k, <<"addIceCandidate", trace.received[j][1]>>) :
                \E p \in callsOf(k, <<"addIceCandidate", trace.received[i][1]>>) : p < q
  /\ \A a, b \in 1..Len(appState.pendingIceCandidates) :
       a < b => receivedAt(appState.pendingIceCandidates[a])
                  < receivedAt(appState.pendingIceCandidates[b])

(* C15: the initiator applies a remote answer at most once per session:    *)
(* on each peer connection setRemoteDescription with an answer is invoked  *)
(* at most once, whatever the polls redeliver and however the poll ticks   *)
(* overlap.                                                                *)
C15_AnswerOnce ==
  \A k \in 1..Len(conns) :
    Cardinality(callsOf(k, <<"setRemoteDescription", "answer">>)) <= 1

(* C16: each signal fingerprint is acted upon at most once per client      *)
(* session: the signal handler is never called a second time for a         *)
(* fingerprint it was already called for, across repeated and overlapping  *)
(* polls of an uncleared mailbox.                                          *)
C16_FingerprintOnce == trace.handledTwice = {}

(* C17 as stated: a poll tick calls clearSignals if and only if at least   *)
(* one non-duplicate signal was handled in that tick; a tick that fails    *)
(* with an error never clears the mailbox.                                 *)
C17_ClearIffHandled_Stated ==
  \A o \in trace.ticks :
    /\ o.cleared <=> o.handled
    /\ o.failed => ~o.cleared

(* C17 as amended: a poll tick calls clearSignals if and only if at least  *)
(* one non-duplicate signal was handled in that tick and no later handler  *)
(* call of the tick threw; a tick that finds an empty mailbox, only        *)
(* duplicates, or fails with an error never clears the mailbox.            *)
C17_ClearIffHandled ==
  \A o \in trace.ticks :
    /\ o.cleared <=> (o.handled /\ ~o.failed)
    /\ (o.failed \/ ~o.handled) => ~o.cleared

C17_Witness ==
  /\ [handled |-> TRUE, failed |-> FALSE, cleared |-> TRUE] \in trace.ticks
  /\ [handled |-> TRUE, failed |-> TRUE, cleared |-> FALSE] \in trace.ticks
  /\ [handled |-> FALSE, failed |-> FALSE, cleared |-> FALSE] \in trace.ticks

(* C18: the initiator sends its offer only to a session that has 2         *)
(* registered peers, after getSessionInfo has reported peerCount >= 2, so  *)
(* the offer is never rejected with NoPeer.                                *)
C18_OfferAfterPeer ==
  \A o \in trace.offers :
    /\ o.peerCount >= 2
    /\ o.ret # Err("No other peer in session yet")

(* C19: once resetApp has run, no poll tick, signal handler, peer-wait     *)
(* timer or session function started before it changes                     *)
(* remoteDescriptionSet, pendingIceCandidates or processedSignals, or      *)
(* issues a coordinator call.                                              *)
C19_NothingAfterReset == trace.stale = {}

\* the peer connections that were made and not closed
openConnections == {k \in 1..Len(conns) : ~conns[k].closed}

\* the session functions that are between the peer's arrival and the poll
establishing ==
  {task \in tasks : task.pc \in {"createOffer", "setLocalDescription", "sendOffer"}}

(* C20: per page there is at most one link establishment in flight at any  *)
(* time, over any sequence of create and cancel actions: at most one peer  *)
(* connection is open and at most one session function is setting one up.  *)
C20_OneEstablishment ==
  /\ Cardinality(openConnections) <= 1
  /\ Cardinality(establishing) <= 1

-----------------------------------------------------------------------------
(* The transfer as a state machine.  The two pages are connected and the   *)
(* channel is open; each action is one callback or one stretch of an async *)
(* function between two awaits.  The channel delivers in order.  The       *)
(* requests on the store are served in the order they were made, each in   *)
(* its own transaction.  In TransferSpec one file is sent and the store   *)
(* may hold a checkpoint of an earlier life of the receiving page; in      *)
(* RoundsSpec the store is empty at first and the sending page is given a  *)
(* second file once the first is sent, which goes to a page that has       *)
(* joined the new session.                                                 *)

MaxRounds == 2        \* files sent from the sending page, one after the other
MaxInFlight == 3      \* most frames on their way to the receiving page

\* the codes of the sessions of the rounds
SessionCodes == <<JoinedCode, <<"L">>>>

EmptyFile == File(<<"empty", ".bin">>, <<>>, <<>>)

Notes == File(<<"notes", ".txt">>, <<"text/", "plain">>, <<104, 105, 10, 10>>)

Photo == File(<<"photo", ".png">>, <<"image/", "png">>, [i \in 1..51 |-> (i * 7) % 256])

Report ==
  File(<<"report", ".txt">>, <<"text/", "plain">>,
       [i \in 1..COMPRESSION_MIN_SIZE |-> 65 + (((i - 1) \div 40) % 7)])

Files == {EmptyFile, Notes, Photo, Report}

\* the bytes sendFileData sends for a file
transmitted(file) == IF shouldCompressFile(file) THEN gzip(file.bytes) ELSE file.bytes

\* the start of the pages' clock, late enough for a stored checkpoint to
\* have expired
Epoch == maxAge + 1

\* what savePartialTransfer stored when a page that had joined with code
\* had received the first SAVE_EVERY chunks of file, sent MIN_CHUNK_SIZE bytes a
\* chunk by a page just loaded
checkpointOf(file, code, timestamp) ==
  LET bytes == transmitted(file)
      meta == metadataOf([Sender(Just(file), MIN_CHUNK_SIZE) EXCEPT
                            !.isCompressed = shouldCompressFile(file)], Len(bytes))
  IN  checkpoint([Receiver(code) EXCEPT
                    !.fileMetadata = Just(meta),
                    !.totalChunks = meta.totalChunks,
                    !.receivedChunks = [k \in 1..SAVE_EVERY |-> <<bytes[k]>>],
                    !.receivedBytes = SAVE_EVERY,
                    !.chunksReceived = SAVE_EVERY,
                    !.receivedChunkMap = 0..(SAVE_EVERY - 1),
                    !.isCompressed = meta.isCompressed,
                    !.originalSize = meta.originalSize],
                 timestamp)

\* what the store may hold when the receiving page is loaded
InitialStores ==
  {EmptyMap} \cup
  {put(EmptyMap, checkpointOf(file, SessionCodes[n], timestamp)) :
     file \in {Photo, Report}, n \in 1..MaxRounds,
     timestamp \in {Epoch - maxAge - 1, Epoch - maxAge}}

Tx ==
  [sender |-> sender, receiver |-> receiver, wire |-> wire, disk |-> disk,
   clock |-> clock, outcome |-> outcome]

TxWrite(x) ==
  /\ Len(x.wire.down) <= MaxInFlight
  /\ sender' = x.sender
  /\ receiver' = x.receiver
  /\ wire' = x.wire
  /\ disk' = x.disk
  /\ clock' = x.clock
  /\ outcome' = x.outcome

\* a step of the transfer, and the signalling as it was
TxCommit(x) ==
  /\ TxWrite(x)
  /\ UNCHANGED <<sessions, codeToSessionId, sessionCounter, now, gen>>
  /\ UNCHANGED clientVars

\* both pages connected, the channel about to open, a file chosen
Connected(file, code, store) ==
  /\ sender = [Sender(Just(file), MIN_CHUNK_SIZE) EXCEPT !.dataChannel = TRUE, !.pc = "onopen"]
  /\ receiver = [Receiver(code) EXCEPT !.dataChannel = TRUE]
  /\ wire = Wire
  /\ disk = Disk(store)
  /\ clock = Epoch
  /\ outcome = NoOutcome

\* the coordinator and the signalling side of the page at rest
SignallingIdle ==
  /\ sessions = EmptyMap
  /\ codeToSessionId = EmptyMap
  /\ sessionCounter = 0
  /\ now = 0
  /\ gen = GenIdle
  /\ ClientInit

TransferInit ==
  /\ SignallingIdle
  /\ \E file \in Files, store \in InitialStores : Connected(file, SessionCodes[1], store)

RoundsInit ==
  /\ SignallingIdle
  /\ \E file \in Files : Connected(file, SessionCodes[1], EmptyMap)

\* dataChannel.onopen on the sending page: calibrateChunkSize(), and
\* sendFileMetadata is set to run in 500 ms
ChannelOpen(sendDuration, level) ==
  /\ sender.pc = "onopen"
  /\ TxCommit([calibrateChunkSize(Tx, sendDuration, level) EXCEPT !.sender.pc = "metadataTimer"])

\* the 500 ms are over
MetadataTimer(level) ==
  /\ sender.pc = "metadataTimer"
  /\ TxCommit(sendFileMetadata(Tx, level))

\* compressFile(state.selectedFile) has returned
Compressed(level) ==
  /\ sender.pc = "compressFile"
  /\ TxCommit(compressed(Tx, level))

\* the 1500 ms after the metadata are over
DataTimer(level) ==
  /\ sender.pc = "dataTimer"
  /\ TxCommit(sendFileData(Tx, level))

\* chunk.arrayBuffer() has returned
ChunkRead(level) ==
  /\ sender.pc = "arrayBuffer"
  /\ TxCommit(sendChunk(Tx, level))

\* dataChannel.onmessage on the receiving page
Deliver ==
  /\ wire.down # <<>>
  /\ TxCommit(onmessage([Tx EXCEPT !.wire.down = Tail(@)], Head(wire.down)))

\* dataChannel.onmessage on the sending page
DeliverUp ==
  /\ wire.up # <<>>
  /\ TxCommit(resumeRequest([Tx EXCEPT !.wire.up = Tail(@)], Head(wire.up)))

\* the store serves its next request
Serve(resumeConfirm) ==
  /\ disk.queue # <<>>
  /\ TxCommit(serve(Tx, resumeConfirm))

\* compressedBlob.arrayBuffer() has returned
Inflate ==
  /\ receiver.jobs # <<>>
  /\ TxCommit(decompress([Tx EXCEPT !.receiver.jobs = Tail(@)], Head(receiver.jobs)))

\* the transfer over and both pages at rest, the user of the sending page
\* chooses another file; createSession() connects the page, as it is, to a
\* page that has joined the new session
NextFile(file) ==
  /\ sender.pc = "done"
  /\ wire = Wire /\ disk.queue = <<>> /\ receiver.jobs = <<>>
  /\ outcome.round < MaxRounds
  /\ TxCommit([Tx EXCEPT !.sender.selectedFile = Just(file),
                         !.sender.dataChannel = TRUE,
                         !.sender.bufferedAmount = 0,
                         !.sender.pc = "onopen",
                         !.receiver = [Receiver(SessionCodes[outcome.round + 1])
                                         EXCEPT !.dataChannel = TRUE],
                         !.outcome = [NoOutcome EXCEPT !.round = outcome.round + 1]])

TransferNext ==
  \/ \E sendDuration \in SendDurations : ChannelOpen(sendDuration, 0)
  \/ MetadataTimer(0)
  \/ Compressed(0)
  \/ DataTimer(0)
  \/ ChunkRead(0)
  \/ Deliver
  \/ DeliverUp
  \/ \E resumeConfirm \in BOOLEAN : Serve(resumeConfirm)
  \/ Inflate

TransferSpec == TransferInit /\ [][TransferNext]_vars

RoundsNext ==
  \/ \E sendDuration \in SendDurations : ChannelOpen(sendDuration, 0)
  \/ MetadataTimer(0)
  \/ Compressed(0)
  \/ DataTimer(0)
  \/ ChunkRead(0)
  \/ Deliver
  \/ \E resumeConfirm \in BOOLEAN : Serve(resumeConfirm)
  \/ Inflate
  \/ \E file \in Files : NextFile(file)

RoundsSpec == RoundsInit /\ [][RoundsNext]_vars

-----------------------------------------------------------------------------
(* Claims about the transfer *)

\* the positions of the metadata frames among the frames the sending page
\* has handed to the channel
metadataAt ==
  {k \in 1..Len(outcome.emitted) :
     outcome.emitted[k].text /\ outcome.emitted[k].type = "metadata"}

\* the frames handed to the channel after the metadata frame
afterMetadata ==
  LET k == CHOOSE k \in metadataAt : TRUE
  IN  SubSeq(outcome.emitted, k + 1, Len(outcome.emitted))

\* chunk k (from 0) of bytes cut into chunks of chunkSize bytes
chunkOf(bytes, chunkSize, k) ==
  [j \in 1..(IF (k + 1) * chunkSize <= Len(bytes)
             THEN chunkSize ELSE Len(bytes) - k * chunkSize) |->
     bytes[k * chunkSize + j]]

\* the frames that carry bytes in chunks of chunkSize bytes: a header and a
\* payload for each chunk, in index order, and one complete frame
framesFor(bytes, chunkSize) ==
  LET n == ceilDiv(Len(bytes), chunkSize)
  IN  [j \in 1..(2 * n + 1) |->
         IF j = 2 * n + 1
         THEN Complete
         ELSE IF j % 2 = 1
         THEN ChunkHeader((j - 1) \div 2, Len(chunkOf(bytes, chunkSize, (j - 1) \div 2)))
         ELSE Binary(chunkOf(bytes, chunkSize, (j - 2) \div 2))]

isPrefix(s, t) == Len(s) <= Len(t) /\ s = SubSeq(t, 1, Len(s))

\* sendFileData has sent the complete frame
sentComplete ==
  /\ outcome.emitted # <<>>
  /\ outcome.emitted[Len(outcome.emitted)] = Complete

C26_ResumeExact ==
  (outcome.resumes # {} /\ outcome.completed > 0) =>
    /\ Len(receiver.receivedChunks) = receiver.totalChunks
    /\ concat(receiver.receivedChunks) = sender.sending

\* the store served a delete made by loadPartialTransfer (the checkpoint
\* had expired) or by handleFileMetadata (the user declined)
deletedNow == outcome'.deleted \ outcome.deleted

C28_NoCheckpointLeft ==
  (outcome.completed > 0 /\ disk.queue = <<>>) =>
    receiver.sessionCode \notin DOMAIN disk.store

alerted(text) == \E k \in 1..Len(outcome.alerts) : outcome.alerts[k] = text

\* the receiving page goes on after compressedBlob.arrayBuffer() with bytes
\* that pako.ungzip throws on
inflateFails ==
  /\ receiver.jobs # <<>>
  /\ receiver'.jobs = Tail(receiver.jobs)
  /\ ~inflates(Head(receiver.jobs))

\* C29: when the bytes received under metadata flagged compressed cannot be
\* decompressed, the receiving page shows the failure to its user and no
\* file of that transfer, whole or partial, is handed to the browser for
\* download, then or later.
C29_NoFileOnFailure ==
  /\ [](alerted(DecompressionFailed) => outcome.downloads = <<>>)
  /\ [][inflateFails =>
          /\ outcome'.alerts = Append(outcome.alerts, DecompressionFailed)
          /\ outcome'.downloads = <<>>]_vars

\* decompression has failed on the chunks of a transfer flagged compressed
C29_Witness ==
  /\ alerted(DecompressionFailed)
  /\ receiver.isCompressed
  /\ outcome.completed > 0
  /\ ~inflates(concat(receiver.receivedChunks))

-----------------------------------------------------------------------------
(* The flow control of the sending page.  The amount the channel has       *)
(* buffered is held at three levels: nothing, the threshold, and more than *)
(* the threshold.  A send leaves it where it is or raises it, the          *)
(* transport lowers it between two steps of the page, and the clock moves  *)
(* while the page is in delay(50).                                         *)

Levels == {0, BUFFER_CHECK_THRESHOLD, BUFFER_CHECK_THRESHOLD + 1}

Pair == File(<<"pair", ".bin">>, <<>>, <<1, 2>>)

\* the levels a send may leave the buffer at
Raised == {level \in Levels : level >= sender.bufferedAmount}

BufferInit ==
  /\ SignallingIdle
  /\ Connected(Pair, JoinedCode, EmptyMap)

\* the transport has sent some of what the channel had buffered
Drain(level) ==
  /\ level < sender.bufferedAmount
  /\ TxCommit([Tx EXCEPT !.sender.bufferedAmount = level])

\* delay(50) of waitForBuffer is over
DelayDone(elapsed) ==
  /\ sender.pc = "delay"
  /\ TxCommit(waitForBuffer([Tx EXCEPT !.clock = @ + elapsed]))

BufferNext ==
  \/ \E sendDuration \in SendDurations, level \in Raised : ChannelOpen(sendDuration, level)
  \/ \E level \in Raised : MetadataTimer(level)
  \/ \E level \in Raised : DataTimer(level)
  \/ \E level \in Raised : ChunkRead(level)
  \/ \E level \in Levels : Drain(level)
  \/ DelayDone(BUFFER_POLL)
  \/ Deliver
  \/ \E resumeConfirm \in BOOLEAN : Serve(resumeConfirm)

BufferSpec == BufferInit /\ [][BufferNext]_vars

\* C30: the sending page reads a chunk and sends it only after the buffer
\* was found at or under the threshold, before the wait or at one of its
\* polls, or after a wait that found it over the threshold more than
\* 5000 ms after it began; the buffer only drains between that and the
\* send.  A wait polls every 50 ms and is over at the first poll later than
\* 5000 ms after its start, so it never goes on past that.
C30_SendBelowThreshold ==
  /\ sender.pc = "arrayBuffer" =>
       \/ sender.bufferedAmount <= BUFFER_CHECK_THRESHOLD /\ ~sender.timedOut
       \/ sender.timedOut /\ clock - sender.startTime > MAX_WAIT
  /\ sender.pc = "delay" =>
       /\ clock - sender.startTime <= MAX_WAIT
       /\ (clock - sender.startTime) % BUFFER_POLL = 0

\* a chunk is about to be sent over a full buffer after a wait that timed
\* out at its 101st poll
C30_Witness ==
  /\ sender.pc = "arrayBuffer"
  /\ sender.timedOut
  /\ sender.bufferedAmount > BUFFER_CHECK_THRESHOLD
  /\ clock - sender.startTime = MAX_WAIT + BUFFER_POLL
  /\ sender.chunksSent = 1

-----------------------------------------------------------------------------
(* The receiving page under any frames.  Whatever is at the other end of   *)
(* the channel, the page is given text and binary frames in any order.     *)

MaxFrames == 5        \* frames the receiving page is given

FrameInputs ==
  {CalibrationTest, Probe, ChunkHeader(0, 1), Binary(<<5>>), Resume(1), Complete,
   Metadata(metadataOf(Sender(Just(Notes), MIN_CHUNK_SIZE), Len(Notes.bytes)))}

FrameInit ==
  /\ SignallingIdle
  /\ sender = Sender(Null, MIN_CHUNK_SIZE)
  /\ receiver = [Receiver(JoinedCode) EXCEPT !.dataChannel = TRUE]
  /\ wire = Wire
  /\ disk = Disk(EmptyMap)
  /\ clock = Epoch
  /\ outcome = NoOutcome

\* dataChannel.onmessage with a frame of any kind
Arrive(frame) ==
  /\ Len(outcome.arrived) < MaxFrames
  /\ TxCommit(onmessage(Tx, frame))

FrameNext ==
  \/ \E frame \in FrameInputs : Arrive(frame)
  \/ \E resumeConfirm \in BOOLEAN : Serve(resumeConfirm)

FrameSpec == FrameInit /\ [][FrameNext]_vars

isHeader(frame) == frame.text /\ frame.type = "chunk"

isMetadata(frame) == frame.text /\ frame.type = "metadata"

\* frame k is binary and the frame before it is a chunk header
followsHeader(k) ==
  /\ ~outcome.arrived[k].text
  /\ k > 1
  /\ isHeader(outcome.arrived[k - 1])

\* frame k is the first binary frame after a chunk header
firstAfterHeader(k) ==
  /\ ~outcome.arrived[k].text
  /\ \E j \in 1..(k - 1) :
       /\ isHeader(outcome.arrived[j])
       /\ \A i \in (j + 1)..(k - 1) : outcome.arrived[i].text

\* the position of the last metadata frame, which empties the list of
\* chunks; 0 if there is none
lastMetadata ==
  LET at == {k \in 1..Len(outcome.arrived) : isMetadata(outcome.arrived[k])}
  IN  IF at = {} THEN 0 ELSE CHOOSE k \in at : \A j \in at : j <= k

\* the payloads of the frames, after the last metadata frame, whose
\* positions are in the set at, in the order of arrival
payloadsAt(at) ==
  LET f[k \in 0..Len(outcome.arrived)] ==
        IF k = 0
        THEN <<>>
        ELSE IF k > lastMetadata /\ k \in at
        THEN Append(f[k - 1], outcome.arrived[k].data)
        ELSE f[k - 1]
  IN  f[Len(outcome.arrived)]

\* a frame has just been given to the page
arrives == Len(outcome'.arrived) = Len(outcome.arrived) + 1

arriving == outcome'.arrived[Len(outcome'.arrived)]

\* the flag and the list of chunks move as the frames dictate: the flag is
\* raised by a chunk header only and lowered by a binary frame only, a
\* binary frame is stored if and only if it finds the flag raised, and one
\* that finds it lowered changes nothing of the page
flagMoves ==
  arrives =>
    /\ (~receiver.expectingChunkData /\ receiver'.expectingChunkData) => isHeader(arriving)
    /\ (receiver.expectingChunkData /\ ~receiver'.expectingChunkData) => ~arriving.text
    /\ isHeader(arriving) => receiver'.expectingChunkData
    /\ ~arriving.text =>
         /\ ~receiver'.expectingChunkData
         /\ receiver.expectingChunkData =>
              receiver'.receivedChunks = Append(receiver.receivedChunks, arriving.data)
         /\ ~receiver.expectingChunkData => receiver' = receiver
    /\ (arriving.text /\ ~isMetadata(arriving)) =>
         receiver'.receivedChunks = receiver.receivedChunks

\* C23 as stated: the chunks the receiving page holds are the binary frames
\* that come directly after a chunk header.
C23_StoredFollowHeader_Stated ==
  receiver.receivedChunks =
    payloadsAt({k \in 1..Len(outcome.arrived) : followsHeader(k)})

\* C23: the flag is raised by a chunk header only and lowered by the binary
\* frame that comes next; a binary frame is stored if and only if the flag
\* is raised when it arrives, and one that arrives with the flag lowered
\* changes nothing of the page.  Of any frames, then, the chunks held are
\* the binary frames that are the first binary frame after some chunk
\* header, text frames in between or not.
C23_StoredFollowHeader ==
  /\ [](receiver.receivedChunks =
          payloadsAt({k \in 1..Len(outcome.arrived) : firstAfterHeader(k)}))
  /\ [][flagMoves]_vars

\* a binary frame was stored though a text frame came between it and its
\* chunk header, and the probe was dropped
C23_Witness ==
  /\ Len(outcome.arrived) >= 4
  /\ outcome.arrived[1] = Probe
  /\ isHeader(outcome.arrived[2])
  /\ outcome.arrived[3] = CalibrationTest
  /\ outcome.arrived[4] = Binary(<<5>>)
  /\ receiver.receivedChunks = <<<<5>>>>
-----------------------------------------------------------------------------
(* The wait for the second peer.  The sending page starts a session and    *)
(* goes on to its offer once the coordinator reports two peers; the        *)
(* coordinator's clock moves, so that the session may expire while the     *)
(* page waits.  From the registration on, a timer that is set fires and a  *)
(* call that is awaited returns: these steps of the page are taken         *)
(* whenever they stay possible.  Nothing makes the other peer join.        *)

WaitNext ==
  \/ SelectFile(1)
  \/ \E task \in tasks, r \in Residues : CreateSessionReturns(task, r)
  \/ \E task \in tasks : RegisterPeerReturns(task)
  \/ \E t \in timers : WaitTick(t)
  \/ \E task \in tasks : OfferCreated(task)
  \/ \E task \in tasks : OfferReady(task)
  \/ \E task \in tasks : OfferSent(task)
  \/ \E code \in DOMAIN codeToSessionId : RemoteRegister(code)
  \/ \E sid \in DOMAIN sessions : \E signal \in RemoteSignals(sid) : RemoteSend(sid, signal)
  \/ \E t \in Instants : Tick(t)

PageRuns ==
  /\ WF_vars(\E task \in tasks : RegisterPeerReturns(task))
  /\ WF_vars(\E t \in timers : WaitTick(t))
  /\ WF_vars(\E task \in tasks : OfferCreated(task))
  /\ WF_vars(\E task \in tasks : OfferReady(task))
  /\ WF_vars(\E task \in tasks : OfferSent(task))

WaitSpec == Init /\ [][WaitNext]_vars /\ PageRuns

\* createSession() is at "await waitForOtherPeer()"
waitingForPeer == \E task \in tasks : task.pc = "waitForOtherPeer"

\* C21: every wait of the page ends, by its success or by a timeout or cap;
\* in particular the sending page's wait for the second peer ends whether
\* or not a second peer joins and whether or not the session expires.
C21_PeerWaitEnds == waitingForPeer ~> ~waitingForPeer

-----------------------------------------------------------------------------
(* The failure of the connection.  The page runs one session, started or   *)
(* joined, against the coordinator and the remote peer; a page that has    *)
(* started the session sends its file once its channel is open.  The       *)
(* transport reports "failed" on a connection that has both descriptions,  *)
(* which is when its checks run; onconnectionstatechange then shows the    *)
(* alert and calls resetApp(), while the timers set and the async          *)
(* functions in flight go on as the code lets them.                        *)

ConnectionFailedText == "Connection failed. Please try again."

\* the awaits of the description exchange
DescriptionPcs ==
  {"createOffer", "setLocalDescription", "offer_setRemoteDescription",
   "offer_setLocalDescription", "answer_setRemoteDescription"}

\* connection k is open, has its remote description, and no description is
\* being made or set
negotiated(k) ==
  /\ k \in 1..Len(conns)
  /\ ~conns[k].closed
  /\ remoteSetAt(k) # {}
  /\ \A task \in tasks : task.pc \notin DescriptionPcs

\* fileInput "change": state.selectedFile = file, and createSession() runs to
\* its first await
ChooseFile(file) ==
  /\ trace.starts < 1
  /\ PageCommit([Ctx EXCEPT !.trace.starts = @ + 1],
                tasks \cup {NewTask("create", trace.starts + 1, "createSession", trace.era)})
  /\ sender' = [sender EXCEPT !.selectedFile = Just(file)]
  /\ UNCHANGED <<receiver, wire, disk, clock, outcome>>

\* dataChannel.onopen on the page that made the offer, the remote page
\* having joined with the page's code
Opened(sendDuration) ==
  /\ sender.pc = "idle"
  /\ negotiated(appState.peerConnection)
  /\ callsOf(appState.peerConnection, <<"createOffer">>) # {}
  /\ LET x == [Tx EXCEPT !.sender.dataChannel = TRUE,
                         !.receiver = [Receiver(appState.sessionCode)
                                         EXCEPT !.dataChannel = TRUE]]
     IN  TxCommit([calibrateChunkSize(x, sendDuration, 0)
                     EXCEPT !.sender.pc = "metadataTimer"])

\* state.peerConnection.onconnectionstatechange with connectionState
\* "failed"
ConnectionFailed ==
  /\ negotiated(appState.peerConnection)
  /\ trace.era < MaxResets
  /\ PageCommit(resetApp(Ctx), tasks)
  /\ TxWrite(alert([Tx EXCEPT !.sender = resetSender(@)], ConnectionFailedText))

AbortNext ==
  \/ \E file \in {Pair, Report} : ChooseFile(file)
  \/ \E task \in tasks, r \in Residues : CreateSessionReturns(task, r)
  \/ \E task \in tasks : RegisterPeerReturns(task)
  \/ \E t \in timers : WaitTick(t)
  \/ \E task \in tasks : OfferCreated(task)
  \/ \E task \in tasks : OfferReady(task)
  \/ \E task \in tasks : OfferSent(task)
  \/ \E code \in DOMAIN codeToSessionId : JoinSession(code, 1)
  \/ \E t \in timers : PollTick(t)
  \/ \E task \in tasks, ok \in BOOLEAN : PollResume(task, ok)
  \/ \E r \in Residues : sessions = EmptyMap /\ trace.starts = 0 /\ RemoteCreate(r)
  \/ \E code \in DOMAIN codeToSessionId : RemoteRegister(code)
  \/ \E sid \in DOMAIN sessions : \E signal \in RemoteSignals(sid) : RemoteSend(sid, signal)
  \/ ConnectionFailed
  \/ Opened(0)
  \/ MetadataTimer(0)
  \/ Compressed(0)
  \/ DataTimer(0)
  \/ ChunkRead(0)
  \/ Deliver
  \/ \E resumeConfirm \in BOOLEAN : Serve(resumeConfirm)
  \/ Inflate

AbortSpec == Init /\ [][AbortNext]_vars

\* the page has shown the alert of the failed connection
aborted == alerted(ConnectionFailedText)

\* the page after AppState.reset(): no poll timer, no open connection, no
\* channel, every field as in a page just loaded
torn ==
  /\ appState = AppState(MyPeerId)
  /\ \A t \in timers : t.kind # "poll"
  /\ openConnections = {}
  /\ ~sender.dataChannel
  /\ sender.selectedFile = Null

-----------------------------------------------------------------------------
(* The sweep of the coordinator *)

\* the stores the calls that change the canister's state leave, from the
\* store as it is
AfterMutatingCalls ==
  {createSession(Cur, now, r).st : r \in Residues}
    \cup {registerPeer(Cur, now, c, q).st : c \in CodesIn, q \in PeerIds}
    \cup {sendSignal(Cur, now, sid, q, sig).st :
             sid \in SessionsIn, q \in PeerIds, sig \in Signals}
    \cup {clearSignals(Cur, now, sid, q).st : sid \in SessionsIn, q \in PeerIds}

\* st holds no session that isSessionExpired finds expired, in the session
\* table or under a code of the index
sweptAt(st, t) ==
  /\ \A sid \in DOMAIN st.sessions : ~isSessionExpired(st.sessions[sid], t)
  /\ \A code \in DOMAIN st.codeToSessionId :
       st.codeToSessionId[code] \in DOMAIN st.sessions =>
         ~isSessionExpired(st.sessions[st.codeToSessionId[code]], t)

(* C32: every mutating call (createSession, registerPeer, sendSignal,      *)
(* clearSignals) first removes all sessions older than the TTL with their  *)
(* code-index entries: whenever such a call returns, no expired session is *)
(* left in the session table or in the code index.                         *)
C32_SweepFirst == \A st \in AfterMutatingCalls : sweptAt(st, now)

-----------------------------------------------------------------------------
(* The life of a session *)

\* session sid, kept by the step, has moved forward or stayed
movesForward(sid) ==
  LET before == sessions[sid]
      after == sessions'[sid]
  IN  /\ after.id = before.id
      /\ after.code = before.code
      /\ after.createdAt = before.createdAt
      /\ Len(after.peers) \in {Len(before.peers), Len(before.peers) + 1}
      /\ SubSeq(after.peers, 1, Len(before.peers)) = before.peers
      /\ before.isLocked => after.isLocked

\* session sid, made by the step, is open with no peer, under an id that no
\* session has had: its counter is above every counter given out so far
startsFresh(sid) ==
  /\ sessions'[sid].peers = <<>>
  /\ ~sessions'[sid].isLocked
  /\ sessions'[sid].id = sid
  /\ sid[1] > sessionCounter

(* C33: a session only moves forward, Open(0 peers) -> Open(1 peer) ->     *)
(* Locked(2 peers) -> removed: its peer count never decreases, a           *)
(* registered peer is never removed or replaced, isLocked never returns    *)
(* from true to false, its id, code and createdAt never change, and a      *)
(* removed session never reappears under the same session id.              *)
C33_SessionForward ==
  /\ [](\A sid \in DOMAIN sessions : sid[1] <= sessionCounter)
  /\ [][/\ \A sid \in DOMAIN sessions \cap DOMAIN sessions' : movesForward(sid)
        /\ \A sid \in DOMAIN sessions' \ DOMAIN sessions : startsFresh(sid)]_vars

\* a second session has run up to its lock after the first was removed
C33_Witness ==
  /\ sessionCounter >= 2
  /\ \E sid \in DOMAIN sessions :
       /\ Len(sessions[sid].peers) = 2
       /\ sessions[sid].isLocked
       /\ sid[1] = 2

-----------------------------------------------------------------------------
(* The errors of the coordinator on the page.  The page runs one session,  *)
(* started or joined, and the coordinator's clock moves, so that the       *)
(* session may expire under the page at any of its calls.                  *)

ErrorNext ==
  \/ ClientNext
  \/ \E t \in Instants : Tick(t)

ErrorSpec == Init /\ [][ErrorNext]_vars

\* the step is the return of a coordinator call to the page with an error
\* result
callFailed ==
  \/ \E task \in tasks :
       /\ RegisterPeerReturns(task)
       /\ registerPeer(Cur, now, task.arg, appState.peerId).ret.tag = "err"
  \/ \E code \in DOMAIN codeToSessionId :
       /\ JoinSession(code, 1)
       /\ registerPeer(Cur, now, code, appState.peerId).ret.tag = "err"
  \/ \E task \in tasks :
       /\ OfferSent(task)
       /\ sendSignal(Cur, now, task.arg, appState.peerId, OfferSignal).ret.tag = "err"
  \/ \E task \in tasks, ok \in BOOLEAN :
       /\ PollResume(task, ok)
       /\ task.pc = "offer_sendSignal"
       /\ task.arg # Null
       /\ sendSignal(Cur, now, task.arg, appState.peerId, AnswerSignal).ret.tag = "err"
  \/ \E task \in tasks, ok \in BOOLEAN :
       /\ PollResume(task, ok)
       /\ task.pc = "clearSignals"
       /\ clearSignals(Cur, now, task.arg, appState.peerId).ret.tag = "err"
  \/ \E t \in timers :
       /\ PollTick(t)
       /\ appState.sessionId # Null
       /\ getSignals(Cur, now, appState.sessionId, appState.peerId).ret.tag = "err"

\* the page as it is when loaded: the fields cleared, no poll, no connection
idle ==
  /\ appState = AppState(MyPeerId)
  /\ \A t \in timers : t.kind # "poll"
  /\ openConnections = {}

(* C31: whenever a coordinator call of the setup (registerPeer,            *)
(* sendSignal, getSignals, clearSignals; createSession has no error        *)
(* result) returns an error, the page shows it and resets to idle; it      *)
(* never goes on with the handshake as if the call had succeeded.          *)
C31_ErrorsReset == [][callFailed => idle']_vars

-----------------------------------------------------------------------------
(* The calibration.  A sending page, of either device profile, sends one   *)
(* short file after the other over the sessions it starts; CHUNK_SIZE is a *)
(* variable of the page and lives across them.  When onopen runs,          *)
(* state.dataChannel is open, or it is the channel of a later session that *)
(* is still connecting and opens before the metadata timer; a send of the  *)
(* probe may throw.                                                        *)

ReadyStates == {"open", "connecting"}

CalibrateInit ==
  /\ SignallingIdle
  /\ \E isMobileDevice \in BOOLEAN :
       sender = [Sender(Just(Pair), MIN_CHUNK_SIZE)
                   EXCEPT !.isMobileDevice = isMobileDevice,
                          !.dataChannel = TRUE,
                          !.pc = "onopen"]
  /\ receiver = [Receiver(SessionCodes[1]) EXCEPT !.dataChannel = TRUE]
  /\ wire = Wire
  /\ disk = Disk(EmptyMap)
  /\ clock = Epoch
  /\ outcome = NoOutcome

\* dataChannel.onopen on the sending page: calibrateChunkSize(), and
\* sendFileMetadata is set to run in 500 ms
Onopen(readyState, thrownAt, sendDuration) ==
  /\ sender.pc = "onopen"
  /\ TxCommit([calibrate(Tx, readyState, thrownAt, sendDuration, 0)
                 EXCEPT !.sender.pc = "metadataTimer"])

CalibrateNext ==
  \/ \E readyState \in ReadyStates, thrownAt \in 0..2, sendDuration \in SendDurations :
       Onopen(readyState, thrownAt, sendDuration)
  \/ MetadataTimer(0)
  \/ DataTimer(0)
  \/ ChunkRead(0)
  \/ Deliver
  \/ \E resumeConfirm \in BOOLEAN : Serve(resumeConfirm)
  \/ NextFile(Pair)

CalibrateSpec == CalibrateInit /\ [][CalibrateNext]_vars

\* the sizes a calibration may choose on a device of the given profile
Tiers(isMobileDevice) ==
  LET all == {(k * 1024) \div Scale : k \in {64, 128, 256, 512, 1024}}
  IN  IF isMobileDevice THEN {size \in all : size <= (256 * 1024) \div Scale} ELSE all

\* the step is onopen and both sends of the probe have been made
probed ==
  /\ sender.pc = "onopen" /\ sender'.pc = "metadataTimer"
  /\ Len(outcome'.emitted) = Len(outcome.emitted) + 2

\* the step is onopen and the calibration has not run, or a send has thrown
unprobed ==
  /\ sender.pc = "onopen" /\ sender'.pc = "metadataTimer"
  /\ Len(outcome'.emitted) < Len(outcome.emitted) + 2

(* C36: after calibration the chunk size of the transfer is one of the     *)
(* tiers between 64 KiB and 1 MiB, at most 256 KiB on the constrained      *)
(* profile; if the calibration cannot run because the channel is not open, *)
(* or a send of the probe throws, the transfer goes on with the 64 KiB     *)
(* minimum, also when an earlier session of the page had calibrated a      *)
(* larger size.                                                            *)
C36_CalibratedOrMinimum ==
  /\ [][probed => sender'.CHUNK_SIZE \in Tiers(sender.isMobileDevice)]_vars
  /\ [][unprobed => sender'.CHUNK_SIZE = MIN_CHUNK_SIZE]_vars

-----------------------------------------------------------------------------
(* The chunk size of a transfer *)

\* the metadata object the sending page has sent
declared == outcome.emitted[CHOOSE k \in metadataAt : TRUE].meta[1]

\* the chunk headers sent after the metadata
headersSent == {k \in 1..Len(afterMetadata) : isHeader(afterMetadata[k])}

\* the payloads sent after the metadata
payloadsSent == {k \in 1..Len(afterMetadata) : ~afterMetadata[k].text}

-----------------------------------------------------------------------------
(* The acceptance.  The receiving page shows the file preview at the end   *)
(* of handleFileMetadata; its user accepts or rejects the file there.  The *)
(* store of the page is empty, so that chunks are stored only as they      *)
(* arrive.  A channel closed by the receiving page delivers nothing more.  *)

FileRejectedText == "File transfer rejected"

\* AppState.reset() and resetApp() on the receiving page; the
\* decompressions under way go on
resetReceiver(r) == [Receiver(Null) EXCEPT !.jobs = r.jobs]

\* btnAccept "click"
Accept ==
  /\ receiver.filePreview
  /\ TxCommit([Tx EXCEPT !.receiver.filePreview = FALSE,
                         !.outcome.accepted = TRUE])

\* btnReject "click"
Reject ==
  /\ receiver.filePreview
  /\ TxCommit([alert(Tx, FileRejectedText) EXCEPT !.receiver = resetReceiver(@)])

\* dataChannel.onmessage on the receiving page, its channel open
Received ==
  /\ receiver.dataChannel
  /\ Deliver

\* a frame reaches the receiving page after it has closed its channel
Discard ==
  /\ ~receiver.dataChannel
  /\ wire.down # <<>>
  /\ TxCommit([Tx EXCEPT !.wire.down = Tail(@)])

AcceptInit ==
  /\ SignallingIdle
  /\ \E file \in Files : Connected(file, SessionCodes[1], EmptyMap)

AcceptNext ==
  \/ \E sendDuration \in SendDurations : ChannelOpen(sendDuration, 0)
  \/ MetadataTimer(0)
  \/ Compressed(0)
  \/ DataTimer(0)
  \/ ChunkRead(0)
  \/ Received
  \/ Discard
  \/ \E resumeConfirm \in BOOLEAN : Serve(resumeConfirm)
  \/ Inflate
  \/ Accept
  \/ Reject

AcceptSpec == AcceptInit /\ [][AcceptNext]_vars

\* the user has rejected the file
rejected ==
  \E k \in 1..Len(outcome.alerts) : outcome.alerts[k] = FileRejectedText

(* C34: the receiving page awaits the acceptance before it receives        *)
(* chunks: from the receipt of the metadata to the user's acceptance no    *)
(* chunk payload is appended to receivedChunks, and none is after the user *)
(* has rejected the file.                                                  *)
C34_AcceptanceFirst ==
  /\ receiver.fileMetadata # Null /\ ~outcome.accepted => receiver.receivedChunks = <<>>
  /\ rejected => receiver.receivedChunks = <<>>

-----------------------------------------------------------------------------
(* The fingerprints of candidates.  The remote peer sends two candidates   *)
(* whose strings differ after their first 50 characters.                   *)

CommonPrefix == [i \in 1..PREFIX_LEN |-> "c"]

TwinCandidates == {IceSignal(CommonPrefix \o <<"1">>), IceSignal(CommonPrefix \o <<"2">>)}

\* what the remote peer sends in a session: its description and the twins
TwinSignals(sid) == (RemoteSignals(sid) \ Candidates) \cup TwinCandidates

DedupNext ==
  \/ SelectFile(1)
  \/ \E task \in tasks, r \in Residues : CreateSessionReturns(task, r)
  \/ \E task \in tasks : RegisterPeerReturns(task)
  \/ \E t \in timers : WaitTick(t)
  \/ \E task \in tasks : OfferCreated(task)
  \/ \E task \in tasks : OfferReady(task)
  \/ \E task \in tasks : OfferSent(task)
  \/ \E code \in DOMAIN codeToSessionId : JoinSession(code, 1)
  \/ \E t \in timers : PollTick(t)
  \/ \E task \in tasks, ok \in BOOLEAN : PollResume(task, ok)
  \/ \E r \in Residues : sessions = EmptyMap /\ trace.starts = 0 /\ RemoteCreate(r)
  \/ \E code \in DOMAIN codeToSessionId : RemoteRegister(code)
  \/ \E sid \in DOMAIN sessions : \E signal \in TwinSignals(sid) : RemoteSend(sid, signal)

DedupSpec == Init /\ [][DedupNext]_vars

\* the signal has been passed to handleSignalFromCanister since the page
\* was last reset
handled(signal) ==
  IF signal.type = "ice-candidate" /\ signal.candidate # Null
  THEN \E k \in 1..Len(trace.received) : trace.received[k][1] = signal.candidate
  ELSE signalHash(signal) \in trace.handledOnce

(* C40: the poll loop skips redeliveries only: a polled signal is skipped  *)
(* only if a signal of the same content was handled before, so that of two *)
(* distinct signals, such as two candidates whose strings share their      *)
(* first 50 characters, both are handled.  Here: every polled signal a     *)
(* tick of a page never reset has gone past has been passed to the         *)
(* handler.                                                                *)
C40_SkipsRedeliveriesOnly ==
  trace.era = 0 =>
    \A task \in tasks :
      task.kind = "poll" =>
        \A j \in 1..Len(task.signals) : j < task.i => handled(task.signals[j])

-----------------------------------------------------------------------------
(* The buffered candidates *)

\* the awaits of handleSignalFromCanister
HandlerPcs ==
  {"offer_setRemoteDescription", "offer_setLocalDescription", "offer_sendSignal",
   "offer_flush", "answer_setRemoteDescription", "answer_flush", "ice_addIceCandidate"}

\* a call of handleSignalFromCanister is under way
handlerRunning == \E task \in tasks : task.kind = "poll" /\ task.pc \in HandlerPcs

(* C39: buffered candidates are never stranded: whenever                   *)
(* remoteDescriptionSet is true and no signal handler is running,          *)
(* pendingIceCandidates is empty, also where applying the remote answer    *)
(* throws and the flag is set in the error handler.                        *)
C39_NoneStranded ==
  (appState.remoteDescriptionSet /\ ~handlerRunning) => appState.pendingIceCandidates = <<>>

-----------------------------------------------------------------------------
(* The mailbox of the page *)

\* the payloads queued for the page in session sid of the given sessions
queuedFor(map, sid) ==
  IF sid \in DOMAIN map /\ MyPeerId \in peerIds(map[sid])
  THEN {mailbox(map[sid], MyPeerId)[k] : k \in 1..Len(mailbox(map[sid], MyPeerId))}
  ELSE {}

(* C38: no signal is lost between the coordinator and the page: a          *)
(* clearSignals issued after a poll never removes a payload that arrived   *)
(* after that poll's getSignals and has not been fetched and handled.      *)
(* Here: on a page never reset, a payload that leaves the mailbox of the   *)
(* page in a session that stays has been passed to the signal handler.     *)
C38_NoSignalLost ==
  [][trace.era = 0 =>
       \A sid \in DOMAIN sessions :
         sid \in DOMAIN sessions' =>
           \A signal \in queuedFor(sessions, sid) :
             signal \notin queuedFor(sessions', sid) => handled(signal)]_vars

-----------------------------------------------------------------------------
(* The progress of the receiving page *)

\* the bytes held in the chunks stored
storedBytes == Len(concat(receiver.receivedChunks))

\* the metadata of the transfer is not replaced by the step
sameTransfer ==
  /\ receiver.fileMetadata # Null
  /\ receiver'.fileMetadata = receiver.fileMetadata

(* C37: the progress of the receiving page stays consistent during a       *)
(* transfer, across a resume restore and across the checkpoint lookup that *)
(* follows the metadata: chunksReceived and receivedBytes never decrease,  *)
(* receivedBytes is the total length of the chunks stored, and the         *)
(* received-chunk index set is the set of the indices of the chunks        *)
(* stored, its size their number.                                          *)
C37_ProgressConsistent ==
  /\ [](receiver.fileMetadata # Null =>
          /\ receiver.receivedBytes = storedBytes
          /\ receiver.receivedChunkMap = 0..(Len(receiver.receivedChunks) - 1))
  /\ [][sameTransfer =>
          /\ receiver'.chunksReceived >= receiver.chunksReceived
          /\ receiver'.receivedBytes >= receiver.receivedBytes]_vars

====
